---- MODULE Spec2Model ----
(***************************************************************************)
(* Mattermost bridge: the source-side connection supervisor                *)
(* (MattermostClient: WebSocket lifecycle, heartbeat, reconnect backoff,   *)
(* session re-validation) and the forwarding pipeline of MattermostBridge  *)
(* (handleMessage, catch-up, MessageTracker watermark).                    *)
(*                                                                         *)
(* Time is counted in seconds; reconnect delays in half milliseconds so    *)
(* that 5000 * 1.5^(n-1) is exact for the attempts below the 30 s cap.     *)
(***************************************************************************)
EXTENDS Integers, Sequences, FiniteSets, TLC

VARIABLES
    left,          \* the fields of the source-side MattermostClient and the WebSocket objects it created
    now,           \* Date.now(), in seconds
    inflight,      \* suspended 'message' callbacks (one record per delivery that passed the guard)
    eventsSeen,    \* bridge: leftEvents or bridgeEvents is non-empty since the last summary
    disconnected,  \* disconnect() has run and connectWebSocket() has not been called since
    staleSeen,     \* a socket callback has run with a connection id that was no longer current
    cfg,           \* the configuration and the limits of the exploration, fixed by the initial state
    bridge,        \* the fields of MattermostBridge and of its MessageTracker (lost when the process exits)
    world          \* what outlives the process: the tracking file, both servers' channels, the record of deliveries
                   \* (history: the messages 1..history exist on the source; live: those broadcast on the stream)

vars == <<left, now, inflight, eventsSeen, disconnected, staleSeen, cfg, bridge, world>>

----------------------------------------------------------------------------
(* Bounds of the model *)

MaxSockets == 4        \* WebSocket objects created in one run
MaxAttempts == 3       \* consecutive reconnect attempts
MaxForced == 2         \* pending forced-reconnect timeouts
MaxTicks == 1          \* heartbeat periods the clock advances
StartTime == 300       \* Date.now() at construction (far from the zero-initialised timestamps)
MaxInflight == 2       \* suspended message callbacks
MaxSocketsDeliver == 2 \* WebSocket objects created in the delivery spec
MaxAttemptsBackoff == 7 \* consecutive reconnect attempts in the backoff spec
MaxMsgs == 2           \* messages posted on the source server in the forwarding spec
MaxArrivals == 2       \* deliveries (stream events and catch-up replays) in the forwarding spec
MaxRestarts == 1       \* process restarts
MaxRecover == 3        \* config.catchUp.maxMessagesToRecover
MaxSocketsFwd == 2     \* WebSocket objects created by one process in the forwarding spec
MaxFaults == 1         \* failures the network and the server cause in the liveness spec
MaxTicksLive == 3      \* heartbeat periods the clock advances in the liveness spec
MaxChecks == 2         \* session checks in flight
Tokens == {1, 2}       \* the session tokens the server issues
MaxStepsBeat == 20     \* steps the clock advances in the heartbeat spec
BeatStep == 5          \* seconds the clock advances at a time in the heartbeat spec
MaxArrivalsRoute == 3  \* stream events delivered in the routing spec
MaxSocketsAuth == 3    \* WebSocket objects created in the session spec
MaxTicksAuth == 1      \* heartbeat periods the clock advances in the session spec
MaxArrivalsEdit == 3   \* stream events delivered in the edit spec
MaxRestartsEdit == 1   \* process restarts in the edit spec
MaxArrivalsDryRun == 3 \* deliveries in the dry-run spec
MaxArrivalsStart == 1  \* deliveries in the spec of start()
MaxRecoverSmall == 1   \* config.catchUp.maxMessagesToRecover in the spec of the recovery cap
SinceServerLimit == 1000 \* the posts the server returns at most for a since query
MaxArrivalsAssets == 2 \* deliveries in the spec of the avatar and the attachments
MaxMsgsCatchUp == 2    \* messages posted on the source server in the catch-up spec
MaxArrivalsCatchUp == 3 \* deliveries in the catch-up spec
MaxRestartsCatchUp == 1 \* process restarts in the catch-up spec
MaxArrivalsMap == 2    \* stream events delivered in the id map spec
MapSlack == 2          \* free entries of the id map at the start of the id map spec, at most

(* Program constants *)

maxReconnectAttempts == 0
HeartbeatSeconds == 30
PongStaleSeconds == 65
MessageStaleSeconds == 90
StatusCheckSeconds == 30
AuthCheckSeconds == 180
AuthThrottleSeconds == 30
MaxJitter == 999
BackoffBaseMs == 5000
BackoffCapMs == 30000
MapCap == 1000
LookbackMs == 24 * 60 * 60 * 1000

Channels == {1, 2}
SourceChannels == {1}          \* config.rule.sourceChannelId
MsgIds == {1, 2, 3}
ChannelOf(m) == IF m = 3 THEN 2 ELSE 1
EventKinds == {"posted", "edited"}

CONNECTING == "CONNECTING"
OPEN == "OPEN"
CLOSING == "CLOSING"
CLOSED == "CLOSED"

NoTimer == 0
NoSocket == 0

\* user.email of the authors and config.dontForwardFor
Emails == { << >>, <<"a", "@", "x">>, <<"A", "@", "X">>, <<"a", "@", "y", "x">>, <<"a", "@", "y">> }
DontForwardLists == { << >>, << <<"x">> >>, << <<"@", "X">> >> }

\* post.user_id and post.file_ids of the source messages; the id of the copy
\* of a source file on the destination server
Users == {1, 2}
UserOf(m) == IF m = 3 THEN 2 ELSE 1
FilesOf(m) == IF m = 1 THEN <<1, 2>> ELSE << >>
Uploaded(f) == 10 + f

\* strings are sequences of characters; String.prototype.toLowerCase,
\* startsWith and endsWith
Lower(ch) == CASE ch = "A" -> "a" [] ch = "X" -> "x" [] ch = "Y" -> "y" [] OTHER -> ch
toLowerCase(str) == [j \in 1..Len(str) |-> Lower(str[j])]
startsWith(str, t) == Len(t) <= Len(str) /\ SubSeq(str, 1, Len(t)) = t
endsWith(str, t) == Len(t) <= Len(str) /\ SubSeq(str, Len(str) - Len(t) + 1, Len(str)) = t

\* handleMessage: the email domain filter without toLowerCase
shouldExcludeCaseSensitive(dontForwardFor, email) ==
    /\ Len(dontForwardFor) > 0
    /\ email # << >>
    /\ \E j \in 1..Len(dontForwardFor) :
         LET domainToCheck == IF startsWith(dontForwardFor[j], <<"@">>)
                              THEN dontForwardFor[j]
                              ELSE <<"@">> \o dontForwardFor[j]
         IN  endsWith(email, domainToCheck)

\* handleMessage: the email domain filter (email << >>: the user has no email)
shouldExclude(dontForwardFor, email) ==
    /\ Len(dontForwardFor) > 0
    /\ email # << >>
    /\ \E j \in 1..Len(dontForwardFor) :
         LET normalizedDomain == toLowerCase(dontForwardFor[j])
             domainToCheck == IF startsWith(normalizedDomain, <<"@">>)
                              THEN normalizedDomain
                              ELSE <<"@">> \o normalizedDomain
         IN  endsWith(toLowerCase(email), domainToCheck)

\* the locals of handleMessage after getUser: profilePictureUrl (0: undefined),
\* the file ids not yet downloaded, filesToUpload, uploadedFileIds, and the
\* call handleMessage is waiting for
NoAssets ==
    [profilePictureUrl |-> 0, pending |-> << >>, filesToUpload |-> << >>,
     uploadedFileIds |-> << >>, skipped |-> {}, stage |-> "start"]

\* bridgeEvents: the counters of trackBridgeEvent
NoEvents == [message_excluded |-> 0]

\* profilePictureCache with no entry (0: the user has none)
NoAvatars == [u \in Users |-> 0]

\* the URL uploadProfilePicture builds from the id of the file the server created
FileUrl(id) == 100 + id

\* post.create_at, in ms: the server numbers the messages in posting order and
\* posts are some ms apart
CreateAt(m) == 3 * m

\* post.update_at of a post edited while h posts exist: after the creation of
\* post h and its forwarding, before the creation of post h + 1
EditAt(h) == 3 * h + 2

\* MessageTracker: no TrackedChannel for a channel, empty TrackingData, no tracking file
NoTrack == [id |-> 0, ts |-> 0]
EmptyData == [ch \in Channels |-> NoTrack]
NoFile == [exists |-> FALSE, data |-> EmptyData]
File(data) == [exists |-> TRUE, data |-> data]

\* outcomes of fs.writeFileSync / fs.mkdirSync / fs.readFileSync
FsResults == {"ok", "eacces", "err"}

----------------------------------------------------------------------------
(* Helpers *)

RECURSIVE Pow(_, _)
Pow(b, e) == IF e = 0 THEN 1 ELSE b * Pow(b, e - 1)

Min(a, b) == IF a <= b THEN a ELSE b

RemoveAt(seq, k) == [j \in 1..(Len(seq) - 1) |-> IF j < k THEN seq[j] ELSE seq[j + 1]]

\* BackoffDelay without the Math.min cap
BackoffDelayUncapped(n, jitter) ==
    (2 * (BackoffBaseMs * Pow(3, n - 1) + jitter * Pow(2, n - 1))) \div Pow(2, n - 1)

\* Math.min(5000 * Math.pow(1.5, n - 1) + jitter, 30000), in half milliseconds.
\* 5000 * 1.5^(n-1) = 5000 * 3^(n-1) / 2^(n-1); the comparison with the cap is
\* done on the numerators, the quotient is exact whenever it is below the cap.
BackoffDelay(n, jitter) ==
    LET den == Pow(2, n - 1)
        num == BackoffBaseMs * Pow(3, n - 1) + jitter * den
    IN  IF num >= BackoffCapMs * den THEN 2 * BackoffCapMs ELSE (2 * num) \div den

\* Math.floor(Math.random() * 1000): all its values, and the two extreme ones
AllJitters == 0..MaxJitter
Jitters == {0, MaxJitter}

\* a frame the client sends: its action, its seq, the token it carries (0: none)
\* and the number of heartbeat intervals that existed when it was sent
NoFrame == [action |-> "none", seq |-> 0, token |-> 0, intervals |-> 0]

\* first: the first frame the client sent on the socket; sent: the frames the
\* latest open handler or heartbeat tick sent on it, in order
NewSocket == [readyState |-> CONNECTING, listeners |-> TRUE, clientClosed |-> FALSE,
              first |-> NoFrame, sent |-> << >>]

\* a closed socket emits nothing any more: its listeners no longer matter
ClosedSocket == [readyState |-> CLOSED, listeners |-> FALSE, clientClosed |-> FALSE,
                 first |-> NoFrame, sent |-> << >>]

\* WebSocket.close(): OPEN or CONNECTING starts the closing handshake;
\* clientClosed records that the client asked for the close
SocketClose(s) ==
    IF s.readyState \in {CONNECTING, OPEN}
    THEN [s EXCEPT !.readyState = CLOSING, !.clientClosed = TRUE]
    ELSE IF s.readyState = CLOSING THEN [s EXCEPT !.clientClosed = TRUE] ELSE s

InitClient ==
    [ token |-> 1,
      ws |-> NoSocket,
      sockets |-> << >>,
      wsSequence |-> 1,
      wsConnectionId |-> 0,
      monitoredChannels |-> {},
      messageHandler |-> FALSE,
      messageEditHandler |-> FALSE,
      pingInterval |-> FALSE,
      hbTimers |-> 0,
      lastPongTime |-> 0,
      lastMessageTime |-> 0,
      lastStatusCheck |-> 0,
      lastAuthCheck |-> 0,
      reconnectAttempts |-> 0,
      sessionCheckInProgress |-> FALSE,
      checks |-> << >>,
      processingMessages |-> {},
      reconnectTimer |-> NoTimer,
      forcedTimers |-> 0,
      intentionallyClosing |-> FALSE,
      channelCache |-> {} ]

wsConnectionCount(c) == Len(c.sockets)

wsState(c) == IF c.ws = NoSocket THEN "null" ELSE c.sockets[c.ws].readyState

\* a frame goes out on the client's socket
transmit(c, frame) ==
    [c EXCEPT !.sockets[c.ws].first = IF @ = NoFrame THEN frame ELSE @,
              !.sockets[c.ws].sent = Append(@, frame.action)]

sendWebSocketMessage(c, action, token) ==
    IF c.ws = NoSocket \/ wsState(c) # OPEN
    THEN c
    ELSE [transmit(c, [action |-> action, seq |-> c.wsSequence, token |-> token,
                       intervals |-> c.hbTimers])
            EXCEPT !.wsSequence = c.wsSequence + 1]

\* this.ws.ping(): a control frame, outside the sequence numbers
ping(c) == transmit(c, [action |-> "ping", seq |-> 0, token |-> 0, intervals |-> c.hbTimers])

----------------------------------------------------------------------------
(* MattermostClient methods, as functions on the client record *)

stopHeartbeat(c) ==
    IF c.pingInterval
    THEN [c EXCEPT !.pingInterval = FALSE, !.hbTimers = c.hbTimers - 1]
    ELSE c

startHeartbeat(c, t) ==
    [c EXCEPT !.lastPongTime = t, !.lastStatusCheck = t, !.lastAuthCheck = t,
              !.pingInterval = TRUE, !.hbTimers = c.hbTimers + 1]

\* connectWebSocket without the duplicate-connection guard
connectWebSocketNoGuard(c, channelIds) ==
    LET c1 == [c EXCEPT !.monitoredChannels = channelIds, !.messageHandler = TRUE]
        socks == IF c1.ws # NoSocket
                 THEN [c1.sockets EXCEPT ![c1.ws].listeners = FALSE]
                 ELSE c1.sockets
        id == wsConnectionCount(c1) + 1
    IN  [c1 EXCEPT !.sockets = Append(socks, NewSocket), !.ws = id, !.wsConnectionId = id]

connectWebSocket(c, channelIds) ==
    LET c1 == [c EXCEPT !.monitoredChannels = channelIds, !.messageHandler = TRUE]
    IN  IF c1.ws # NoSocket /\ wsState(c1) \in {OPEN, CONNECTING}
        THEN c1
        ELSE LET socks == IF c1.ws # NoSocket
                          THEN [c1.sockets EXCEPT ![c1.ws].listeners = FALSE]
                          ELSE c1.sockets
                 id == wsConnectionCount(c1) + 1
             IN  [c1 EXCEPT !.sockets = Append(socks, NewSocket),
                            !.ws = id,
                            !.wsConnectionId = id]

\* forceReconnect that leaves the heartbeat interval running
forceReconnectKeepsHeartbeat(c) ==
    IF c.ws # NoSocket /\ wsState(c) = CONNECTING
    THEN c
    ELSE LET c1 == IF c.ws # NoSocket
                   THEN [c EXCEPT !.intentionallyClosing = TRUE,
                                  !.sockets[c.ws] = [SocketClose(c.sockets[c.ws]) EXCEPT !.listeners = FALSE],
                                  !.ws = NoSocket]
                   ELSE c
             c3 == [c1 EXCEPT !.reconnectTimer = NoTimer, !.reconnectAttempts = 0]
         IN  IF c3.monitoredChannels # {} /\ c3.messageHandler
             THEN [c3 EXCEPT !.forcedTimers = c3.forcedTimers + 1]
             ELSE c3

forceReconnect(c) ==
    IF c.ws # NoSocket /\ wsState(c) = CONNECTING
    THEN c
    ELSE LET c1 == IF c.ws # NoSocket
                   THEN [c EXCEPT !.intentionallyClosing = TRUE,
                                  !.sockets[c.ws] = [SocketClose(c.sockets[c.ws]) EXCEPT !.listeners = FALSE],
                                  !.ws = NoSocket]
                   ELSE c
             c2 == stopHeartbeat(c1)
             c3 == [c2 EXCEPT !.reconnectTimer = NoTimer, !.reconnectAttempts = 0]
         IN  IF c3.monitoredChannels # {} /\ c3.messageHandler
             THEN [c3 EXCEPT !.forcedTimers = c3.forcedTimers + 1]
             ELSE c3

\* checkSession without the check of sessionCheckInProgress
checkSessionUnguarded(c, t) ==
    IF t - c.lastAuthCheck < AuthThrottleSeconds
    THEN c
    ELSE [c EXCEPT !.sessionCheckInProgress = TRUE,
                   !.checks = Append(@, [pc |-> "getMe", now |-> t])]

\* the synchronous part of checkSession(): the throttle and the start of GET /users/me
checkSession(c, t) ==
    IF c.sessionCheckInProgress \/ t - c.lastAuthCheck < AuthThrottleSeconds
    THEN c
    ELSE [c EXCEPT !.sessionCheckInProgress = TRUE,
                   !.checks = Append(@, [pc |-> "getMe", now |-> t])]

\* disconnect without flagging the close as intentional
disconnectNoFlag(c) ==
    LET c1 == stopHeartbeat(c)
        c2 == [c1 EXCEPT !.reconnectTimer = NoTimer]
        c3 == IF c2.ws # NoSocket
              THEN [c2 EXCEPT !.sockets[c2.ws] = SocketClose(c2.sockets[c2.ws]),
                              !.ws = NoSocket]
              ELSE c2
    IN  [c3 EXCEPT !.monitoredChannels = {},
                   !.messageHandler = FALSE,
                   !.messageEditHandler = FALSE,
                   !.channelCache = {},
                   !.processingMessages = {}]

disconnect(c) ==
    LET c1 == stopHeartbeat(c)
        c2 == [c1 EXCEPT !.reconnectTimer = NoTimer]
        c3 == IF c2.ws # NoSocket
              THEN [c2 EXCEPT !.intentionallyClosing = TRUE,
                              !.sockets[c2.ws] = SocketClose(c2.sockets[c2.ws]),
                              !.ws = NoSocket]
              ELSE c2
    IN  [c3 EXCEPT !.monitoredChannels = {},
                   !.messageHandler = FALSE,
                   !.messageEditHandler = FALSE,
                   !.channelCache = {},
                   !.processingMessages = {}]

----------------------------------------------------------------------------
(* The callbacks connectWebSocket registers; id is connectionIdForHandlers *)

\* the open handler without the reset of wsSequence
openHandlerNoSequenceReset(c, id, t) ==
    IF id # c.wsConnectionId
    THEN c
    ELSE LET c1 == [c EXCEPT !.reconnectAttempts = 0,
                             !.lastMessageTime = t,
                             !.reconnectTimer = NoTimer,
                             !.sockets[c.ws].sent = << >>]
         IN  startHeartbeat(sendWebSocketMessage(c1, "authentication_challenge", c1.token), t)

\* the open handler without the reset of reconnectAttempts
openHandlerNoReset(c, id, t) ==
    IF id # c.wsConnectionId
    THEN c
    ELSE LET c1 == [c EXCEPT !.lastMessageTime = t, !.reconnectTimer = NoTimer,
                             !.wsSequence = 1, !.sockets[c.ws].sent = << >>]
         IN  startHeartbeat(sendWebSocketMessage(c1, "authentication_challenge", c1.token), t)

openHandler(c, id, t) ==
    IF id # c.wsConnectionId
    THEN c
    ELSE LET c1 == [c EXCEPT !.reconnectAttempts = 0,
                             !.lastMessageTime = t,
                             !.reconnectTimer = NoTimer,
                             !.wsSequence = 1,
                             !.sockets[c.ws].sent = << >>]
         IN  startHeartbeat(sendWebSocketMessage(c1, "authentication_challenge", c1.token), t)

pongHandler(c, id, t) ==
    IF id # c.wsConnectionId THEN c ELSE [c EXCEPT !.lastPongTime = t]

\* the close handler without the stale-socket check
closeHandlerAnySocket(c, id, t, jitter) ==
    LET c1 == checkSession(c, t)
        c2 == stopHeartbeat([c1 EXCEPT !.ws = NoSocket])
    IN  IF c2.intentionallyClosing
        THEN [c2 EXCEPT !.intentionallyClosing = FALSE, !.reconnectTimer = NoTimer]
        ELSE [c2 EXCEPT !.reconnectAttempts = c2.reconnectAttempts + 1,
                        !.reconnectTimer = BackoffDelay(c2.reconnectAttempts + 1, jitter)]

closeHandler(c, id, t, jitter) ==
    IF id # c.wsConnectionId
    THEN c
    ELSE LET c1 == checkSession(c, t)
             c2 == stopHeartbeat([c1 EXCEPT !.ws = NoSocket])
         IN  IF c2.intentionallyClosing
             THEN [c2 EXCEPT !.intentionallyClosing = FALSE, !.reconnectTimer = NoTimer]
             ELSE IF maxReconnectAttempts = 0 \/ c2.reconnectAttempts < maxReconnectAttempts
                  THEN [c2 EXCEPT !.reconnectAttempts = c2.reconnectAttempts + 1,
                                  !.reconnectTimer = BackoffDelay(c2.reconnectAttempts + 1, jitter)]
                  ELSE c2

\* the key the 'message' callback puts in processingMessages
ProcessingKey(kind, m) == IF kind = "posted" THEN <<"post", m>> ELSE <<"edit", m>>

\* the 'message' callback without the processingMessages guard
messagePassesUnguarded(c, id, kind, m) ==
    /\ id = c.wsConnectionId
    /\ ChannelOf(m) \in c.monitoredChannels

\* the 'message' callback without the check of the monitored channels
messagePassesAnyChannel(c, id, kind, m) ==
    /\ id = c.wsConnectionId
    /\ ProcessingKey(kind, m) \notin c.processingMessages

\* the synchronous part of the 'message' callback for a posted / post_edited event:
\* TRUE when the callback goes on to await getUser
messagePasses(c, id, kind, m) ==
    /\ id = c.wsConnectionId
    /\ ProcessingKey(kind, m) \notin c.processingMessages
    /\ ChannelOf(m) \in c.monitoredChannels

messageHandlerSync(c, id, t, kind, m) ==
    IF id # c.wsConnectionId
    THEN c
    ELSE LET c1 == [c EXCEPT !.lastMessageTime = t]
         IN  IF ProcessingKey(kind, m) \in c1.processingMessages
             THEN c1
             ELSE [c1 EXCEPT !.processingMessages = @ \cup {ProcessingKey(kind, m)}]

\* any other event (hello, statuses, typing, ...)
otherMessageHandler(c, id, t) ==
    IF id # c.wsConnectionId THEN c ELSE [c EXCEPT !.lastMessageTime = t]

\* the heartbeat tick without the check of the time since the last message
heartbeatTickPongOnly(c, t) ==
    IF c.ws = NoSocket \/ wsState(c) # OPEN
    THEN stopHeartbeat(c)
    ELSE LET c0 == [c EXCEPT !.sockets[c.ws].sent = << >>]
         IN  IF t - c0.lastPongTime > PongStaleSeconds
             THEN forceReconnect(c0)
             ELSE LET c1 == IF t - c0.lastStatusCheck > StatusCheckSeconds
                            THEN [sendWebSocketMessage(c0, "get_statuses", 0) EXCEPT !.lastStatusCheck = t]
                            ELSE c0
                      c2 == IF t - c1.lastAuthCheck > AuthCheckSeconds
                            THEN checkSession(c1, t)
                            ELSE c1
                  IN  ping(c2)

heartbeatTick(c, t) ==
    IF c.ws = NoSocket \/ wsState(c) # OPEN
    THEN stopHeartbeat(c)
    ELSE LET c0 == [c EXCEPT !.sockets[c.ws].sent = << >>]
         IN  IF t - c0.lastPongTime > PongStaleSeconds
             THEN forceReconnect(c0)
             ELSE LET c1 == IF t - c0.lastStatusCheck > StatusCheckSeconds
                            THEN [sendWebSocketMessage(c0, "get_statuses", 0) EXCEPT !.lastStatusCheck = t]
                            ELSE c0
                      c2 == IF t - c1.lastAuthCheck > AuthCheckSeconds
                            THEN checkSession(c1, t)
                            ELSE c1
                  IN  IF t - c2.lastMessageTime > MessageStaleSeconds
                      THEN forceReconnect(c2)
                      ELSE ping(c2)

reconnectTimerCallback(c) ==
    LET c1 == [c EXCEPT !.reconnectTimer = NoTimer]
    IN  IF c1.ws = NoSocket /\ c1.monitoredChannels # {} /\ c1.messageHandler
        THEN connectWebSocket(c1, c1.monitoredChannels)
        ELSE c1

forcedTimerCallback(c) ==
    LET c1 == [c EXCEPT !.forcedTimers = c.forcedTimers - 1]
    IN  IF c1.ws = NoSocket /\ c1.messageHandler
        THEN connectWebSocket(c1, c1.monitoredChannels)
        ELSE c1

getWebSocketHealth(c) == wsState(c)

\* logEventSummary without the forced reconnect on a bad socket state
logEventSummaryOnlyLogs(c, seen) == c

\* the part of MattermostBridge.logEventSummary that acts on the client
logEventSummary(c, seen) ==
    IF ~seen /\ getWebSocketHealth(c) \in {"null", CLOSED, CLOSING}
    THEN forceReconnect(c)
    ELSE c

----------------------------------------------------------------------------
(* MessageTracker, the message id map and the catch-up fetch *)

InitTracker == [data |-> EmptyData, persistenceEnabled |-> TRUE]

\* save() that writes whenever tracking is enabled
saveAlways(t, disk, r) ==
    IF ~cfg.catchUp
    THEN [tracker |-> t, disk |-> disk]
    ELSE CASE r = "ok"     -> [tracker |-> t, disk |-> File(t.data)]
           [] r = "eacces" -> [tracker |-> [t EXCEPT !.persistenceEnabled = FALSE], disk |-> disk]
           [] OTHER        -> [tracker |-> t, disk |-> disk]

\* MessageTracker.save(): r is the outcome of fs.writeFileSync
save(t, disk, r) ==
    IF ~cfg.catchUp \/ ~t.persistenceEnabled
    THEN [tracker |-> t, disk |-> disk]
    ELSE CASE r = "ok"     -> [tracker |-> t, disk |-> File(t.data)]
           [] r = "eacces" -> [tracker |-> [t EXCEPT !.persistenceEnabled = FALSE], disk |-> disk]
           [] OTHER        -> [tracker |-> t, disk |-> disk]

\* the constructor of MessageTracker: r is the outcome of the file system calls
loadOrInitialize(disk, r) ==
    IF ~cfg.catchUp
    THEN [tracker |-> InitTracker, disk |-> disk]
    ELSE CASE r = "eacces" -> [tracker |-> [data |-> EmptyData, persistenceEnabled |-> FALSE], disk |-> disk]
           [] r = "err"    -> [tracker |-> InitTracker, disk |-> disk]
           [] OTHER        -> IF disk.exists
                              THEN [tracker |-> [data |-> disk.data, persistenceEnabled |-> TRUE], disk |-> disk]
                              ELSE save(InitTracker, disk, r)

\* trackForwardedMessage that stamps the record of every channel
trackForwardedMessageAll(t, disk, channelId, m, r) ==
    IF ~cfg.catchUp
    THEN [tracker |-> t, disk |-> disk]
    ELSE save([t EXCEPT !.data = [ch \in Channels |-> [id |-> m, ts |-> CreateAt(m)]]], disk, r)

\* trackForwardedMessage that keeps the watermark a channel already has
trackForwardedMessageOnce(t, disk, channelId, m, r) ==
    IF ~cfg.catchUp \/ t.data[channelId] # NoTrack
    THEN [tracker |-> t, disk |-> disk]
    ELSE save([t EXCEPT !.data[channelId] = [id |-> m, ts |-> CreateAt(m)]], disk, r)

trackForwardedMessage(t, disk, channelId, m, r) ==
    IF ~cfg.catchUp
    THEN [tracker |-> t, disk |-> disk]
    ELSE save([t EXCEPT !.data[channelId] = [id |-> m, ts |-> CreateAt(m)]], disk, r)

getLastForwardedMessage(t, channelId) ==
    IF ~cfg.catchUp THEN NoTrack ELSE t.data[channelId]

\* performCatchUp: the timestamp the fetch starts from
sinceTimestamp(t, channelId, tnow) ==
    LET lastTracked == getLastForwardedMessage(t, channelId)
    IN  IF lastTracked # NoTrack
        THEN lastTracked.ts + 1
        ELSE tnow * 1000 - LookbackMs

\* messages.sort((a, b) => a.create_at - b.create_at)
RECURSIVE SortByCreateAt(_)
SortByCreateAt(S) ==
    IF S = {}
    THEN << >>
    ELSE LET x == CHOOSE x \in S : \A y \in S : CreateAt(x) <= CreateAt(y)
         IN  <<x>> \o SortByCreateAt(S \ {x})

\* the server returns the newest posts first, at most per_page of them
RECURSIVE Newest(_, _)
Newest(S, limit) ==
    IF S = {} \/ limit = 0
    THEN {}
    ELSE LET x == CHOOSE x \in S : \A y \in S : CreateAt(x) >= CreateAt(y)
         IN  {x} \cup Newest(S \ {x}, limit - 1)

\* post.update_at: create_at until the post is edited
UpdateAt(w, m) == IF w.edits[m] = 0 THEN CreateAt(m) ELSE w.edits[m]

\* GET /channels/{id}/posts?since=: the Mattermost server selects the posts of
\* the channel modified after `since`, that is by update_at, and does not page
\* a since query: per_page (limit) has no effect on it; the client passes the
\* response on without looking at create_at and without cutting it to limit
postsSince(w, channelId, since, limit) ==
    Newest({m \in 1..w.history : ChannelOf(m) = channelId /\ UpdateAt(w, m) > since}, SinceServerLimit)

\* the fallback: the newest min(3 * limit, 300) posts of the channel, filtered
\* by create_at >= since on the client, the first `limit` of them
postsFallback(w, channelId, since, limit) ==
    Newest({m \in Newest({x \in 1..w.history : ChannelOf(x) = channelId}, Min(limit * 3, 300)) :
              CreateAt(m) >= since}, limit)

\* getMessagesSince without its final sort: the posts in the order of the
\* server's response, newest first
getMessagesSinceServerOrder(w, channelId, since, limit, sinceOk, ok) ==
    LET posts == IF sinceOk THEN postsSince(w, channelId, since, limit) ELSE {}
        found == IF posts # {} THEN posts ELSE postsFallback(w, channelId, since, limit)
        oldestFirst == SortByCreateAt(found)
    IN  IF ~ok
        THEN << >>
        ELSE [j \in 1..Len(oldestFirst) |-> oldestFirst[Len(oldestFirst) + 1 - j]]

\* getMessagesSince on the source server w: sinceOk = FALSE is a since query
\* that throws; a failing or empty since query falls back; ok = FALSE is a
\* failing request after it (the fallback's, or a getUser), which returns []
getMessagesSince(w, channelId, since, limit, sinceOk, ok) ==
    LET posts == IF sinceOk THEN postsSince(w, channelId, since, limit) ELSE {}
    IN  IF ~ok
        THEN << >>
        ELSE IF posts # {}
             THEN SortByCreateAt(posts)
             ELSE SortByCreateAt(postsFallback(w, channelId, since, limit))

\* messageIdMap.set(src, dst) without the cap on the size of the map
mapSetUncapped(map, src, dst) ==
    LET hit == {j \in 1..Len(map) : map[j].src = src}
    IN  IF hit # {}
        THEN [j \in 1..Len(map) |-> IF j \in hit THEN [src |-> src, dst |-> dst] ELSE map[j]]
        ELSE Append(map, [src |-> src, dst |-> dst])

\* messageIdMap.set(src, dst) and the cap on the size of the map
mapSet(map, src, dst) ==
    LET hit == {j \in 1..Len(map) : map[j].src = src}
        set == IF hit # {}
               THEN [j \in 1..Len(map) |-> IF j \in hit THEN [src |-> src, dst |-> dst] ELSE map[j]]
               ELSE Append(map, [src |-> src, dst |-> dst])
    IN  IF Len(set) > MapCap THEN Tail(set) ELSE set

\* messageIdMap.get(src): the destination post id, 0 for undefined
mapGet(map, src) ==
    LET hit == {j \in 1..Len(map) : map[j].src = src}
    IN  IF hit = {} THEN 0 ELSE map[CHOOSE j \in hit : TRUE].dst

\* handleMessageEdit without the check of the looked-up target id
handleMessageEditUnchecked(map, src, ignored) ==
    IF ignored
    THEN [next |-> "excluded", target |-> 0]
    ELSE [next |-> "getPost", target |-> mapGet(map, src)]

\* handleMessageEdit up to its first await: the author is on the dontForwardFor
\* list, the message has no target, or getPost is called for the target
handleMessageEdit(map, src, ignored) ==
    IF ignored
    THEN [next |-> "excluded", target |-> 0]
    ELSE IF mapGet(map, src) = 0
         THEN [next |-> "nomap", target |-> 0]
         ELSE [next |-> "getPost", target |-> mapGet(map, src)]

\* the source messages of monitored channels without a destination post
Unforwarded(w) ==
    {m \in 1..w.history : /\ ChannelOf(m) \in SourceChannels
                           /\ \A p \in 1..Len(w.posts) : w.posts[p].src # m}

InitBridge(phase, tracker, backlog) ==
    [ phase |-> phase,
      todo |-> IF phase = "start" THEN SortByCreateAt(SourceChannels) ELSE << >>,
      queue |-> << >>,
      lastTracked |-> NoTrack,
      missedMessages |-> << >>,
      messageIdMap |-> << >>,
      profilePictureCache |-> NoAvatars,
      bridgeEvents |-> NoEvents,
      eventSummaryTimer |-> (phase = "live"),
      heartbeatService |-> (phase = "live"),
      tracker |-> tracker,
      backlog |-> backlog,
      clean |-> TRUE ]

\* what the two servers answer to the calls of start(): every call succeeds
Reachable ==
    [ leftPing |-> TRUE, rightPing |-> TRUE, leftLogin |-> TRUE, rightLogin |-> TRUE,
      source |-> "ok", target |-> "ok", isMember |-> "no", joined |-> "yes", again |-> "ok" ]

\* every combination of answers: a ping or login that fails, a channel that is
\* found ("ok"), unknown ("null": 404), forbidden (403) or failing ("throw")
Servers ==
    [ leftPing : BOOLEAN, rightPing : BOOLEAN, leftLogin : BOOLEAN, rightLogin : BOOLEAN,
      source : {"ok", "null", "throw"},
      target : {"ok", "null", "forbidden", "throw"},
      isMember : {"yes", "no", "throw"},
      joined : {"yes", "no", "throw"},
      again : {"ok", "null", "throw"} ]

InitWorld(posted) ==
    [ disk |-> NoFile,
      servers |-> Reachable,
      posts |-> << >>,
      uploads |-> 0,
      history |-> posted,
      edits |-> [m \in MsgIds |-> 0],
      live |-> 1..posted,
      arrivals |-> 0,
      outcomes |-> << >>,
      dropped |-> {},
      restarts |-> 0,
      faults |-> 0 ]

\* the record of the deliveries: a new delivery, and the outcome of delivery n
arrive(w, out) ==
    IF cfg.track THEN [w EXCEPT !.arrivals = @ + 1, !.outcomes = Append(@, out)] ELSE w

settle(w, n, out) ==
    IF cfg.track THEN [w EXCEPT !.outcomes[n] = out] ELSE w

\* the failures of the network and of the server, counted where they are limited
MayFail == ~cfg.limitFaults \/ world.faults < cfg.maxFaults

fault(w) == IF cfg.limitFaults THEN [w EXCEPT !.faults = @ + 1] ELSE w

----------------------------------------------------------------------------
(* Actions of the supervisor *)

Sockets == 1..Len(left.sockets)

\* the listeners of socket i would run with a connection id that is not the current one
Stale(i) == left.sockets[i].listeners /\ i # left.wsConnectionId

\* the bounds of the model, as guards on the successor
WithinBounds(c) ==
    /\ Len(c.sockets) <= cfg.maxSockets
    /\ c.reconnectAttempts <= cfg.maxAttempts
    /\ c.forcedTimers <= cfg.maxForced
    /\ Len(c.checks) <= cfg.maxChecks

\* start() goes on to the step `next`, or throws: its catch rethrows
startStep(b, ok, next) == [b EXCEPT !.phase = IF ok THEN next ELSE "failed"]

\* start(), after the channels are resolved: performCatchUp when the tracker is enabled
startResolved(b) ==
    [b EXCEPT !.phase = IF cfg.catchUp THEN "start" ELSE "connect",
              !.todo = IF cfg.catchUp THEN SortByCreateAt(SourceChannels) ELSE << >>]

\* start(), step 1: ping() of the left, then of the right client returns or throws
StartPingReturns ==
    /\ bridge.phase \in {"leftPing", "rightPing"}
    /\ bridge' = IF bridge.phase = "leftPing"
                 THEN startStep(bridge, world.servers.leftPing, "rightPing")
                 ELSE startStep(bridge, world.servers.rightPing, "leftLogin")
    /\ UNCHANGED <<left, now, inflight, eventsSeen, disconnected, staleSeen, cfg, world>>

\* start(), step 2: login() of the left, then of the right client returns or throws
StartLoginReturns ==
    /\ bridge.phase \in {"leftLogin", "rightLogin"}
    /\ IF bridge.phase = "leftLogin"
       THEN /\ bridge' = startStep(bridge, world.servers.leftLogin, "rightLogin")
            /\ left' = IF world.servers.leftLogin THEN [left EXCEPT !.token = 1] ELSE left
       ELSE /\ bridge' = startStep(bridge, world.servers.rightLogin, "source")
            /\ left' = left
    /\ UNCHANGED <<now, inflight, eventsSeen, disconnected, staleSeen, cfg, world>>

\* start() that takes whatever getChannelById returned for the source channel
StartSourceReturnsUnchecked ==
    /\ bridge.phase = "source"
    /\ bridge' = startStep(bridge, world.servers.source # "throw", "target")
    /\ left' = IF world.servers.source = "ok"
               THEN [left EXCEPT !.channelCache = @ \cup SourceChannels]
               ELSE left
    /\ UNCHANGED <<now, inflight, eventsSeen, disconnected, staleSeen, cfg, world>>

\* start(), step 3: getChannelById of the source channel returns the channel,
\* returns null (start() throws) or throws
StartSourceReturns ==
    /\ bridge.phase = "source"
    /\ bridge' = startStep(bridge, world.servers.source = "ok", "target")
    /\ left' = IF world.servers.source = "ok"
               THEN [left EXCEPT !.channelCache = @ \cup SourceChannels]
               ELSE left
    /\ UNCHANGED <<now, inflight, eventsSeen, disconnected, staleSeen, cfg, world>>

\* start(), step 3: getChannelById of the target channel returns the channel,
\* returns null (start() throws), is refused with 403, or throws
StartTargetReturns ==
    /\ bridge.phase = "target"
    /\ bridge' = CASE world.servers.target = "ok"        -> startResolved(bridge)
                   [] world.servers.target = "forbidden" -> [bridge EXCEPT !.phase = "isMember"]
                   [] OTHER                              -> [bridge EXCEPT !.phase = "failed"]
    /\ UNCHANGED <<left, now, inflight, eventsSeen, disconnected, staleSeen, cfg, world>>

\* after the 403: isChannelMember returns; a member rethrows the 403
StartIsMemberReturns ==
    /\ bridge.phase = "isMember"
    /\ bridge' = startStep(bridge, world.servers.isMember = "no", "join")
    /\ UNCHANGED <<left, now, inflight, eventsSeen, disconnected, staleSeen, cfg, world>>

\* after the 403: joinChannel returns; start() throws when the bot could not join
StartJoinReturns ==
    /\ bridge.phase = "join"
    /\ bridge' = startStep(bridge, world.servers.joined = "yes", "targetAgain")
    /\ UNCHANGED <<left, now, inflight, eventsSeen, disconnected, staleSeen, cfg, world>>

\* after the join: the second getChannelById of the target channel returns
StartTargetAgainReturns ==
    /\ bridge.phase = "targetAgain"
    /\ bridge' = IF world.servers.again = "ok"
                 THEN startResolved(bridge)
                 ELSE [bridge EXCEPT !.phase = "failed"]
    /\ UNCHANGED <<left, now, inflight, eventsSeen, disconnected, staleSeen, cfg, world>>

\* connectWebSocket and setMessageEditHandler, with the bridge as it is afterwards
OwnerConnectAs(channelIds, b) ==
    /\ LET c == [connectWebSocket(left, channelIds) EXCEPT !.messageEditHandler = TRUE]
       IN  WithinBounds(c) /\ left' = c
    /\ disconnected' = FALSE
    /\ bridge' = b
    /\ UNCHANGED <<now, inflight, eventsSeen, staleSeen, cfg, world>>

\* the owner calls connectWebSocket and setMessageEditHandler
OwnerConnect(channelIds) == OwnerConnectAs(channelIds, [bridge EXCEPT !.phase = "live"])

\* start() that does not wait for performCatchUp before connecting
BridgeStartUnawaited ==
    /\ bridge.phase \in {"catchup", "connect"}
    /\ Len(left.sockets) = 0
    /\ ~disconnected
    /\ OwnerConnect(SourceChannels)

\* MattermostBridge.start(), step 6: the first and only connect of a bridge
\* run, then startEventSummaryTimer() and heartbeatService.start()
BridgeStart ==
    /\ bridge.phase = "connect"
    /\ Len(left.sockets) = 0
    /\ ~disconnected
    /\ OwnerConnectAs(SourceChannels, [bridge EXCEPT !.phase = "live",
                                                      !.eventSummaryTimer = TRUE,
                                                      !.heartbeatService = TRUE])

\* a later call of the client's connectWebSocket by its owner
OwnerReconnect(channelIds) ==
    /\ Len(left.sockets) > 0
    /\ OwnerConnect(channelIds)

\* MattermostBridge.stop() calls disconnect()
OwnerDisconnect ==
    /\ ~disconnected
    /\ bridge.phase \in {"live", "stopped"}
    /\ left' = disconnect(left)
    /\ disconnected' = TRUE
    /\ bridge' = [bridge EXCEPT !.phase = "stopped",
                                !.eventSummaryTimer = FALSE,
                                !.heartbeatService = FALSE,
                                !.profilePictureCache = NoAvatars]
    /\ UNCHANGED <<now, inflight, eventsSeen, staleSeen, cfg, world>>

\* the server accepts the handshake
WsOpenEvent(i) ==
    /\ i \in Sockets
    /\ left.sockets[i].readyState = CONNECTING
    /\ LET c == [left EXCEPT !.sockets[i].readyState = OPEN]
       IN  left' = IF c.sockets[i].listeners THEN openHandler(c, i, now) ELSE c
    /\ UNCHANGED <<now, inflight, eventsSeen, disconnected, cfg, bridge, world>>
    /\ staleSeen' = (staleSeen \/ Stale(i))

WsPongEvent(i) ==
    /\ i \in Sockets
    /\ left.sockets[i].readyState = OPEN
    /\ left.sockets[i].listeners
    /\ left' = pongHandler(left, i, now)
    /\ UNCHANGED <<now, inflight, eventsSeen, disconnected, cfg, bridge, world>>
    /\ staleSeen' = (staleSeen \/ Stale(i))

\* a transport error on an established socket: 'error' is emitted, the socket is
\* destroyed and its 'close' follows
WsErrorEvent(i) ==
    /\ i \in Sockets
    /\ left.sockets[i].readyState = OPEN
    /\ MayFail
    /\ left' = [left EXCEPT !.sockets[i].readyState = CLOSING]
    /\ world' = fault(world)
    /\ UNCHANGED <<now, inflight, eventsSeen, disconnected, cfg, bridge>>
    /\ staleSeen' = (staleSeen \/ Stale(i))

\* 'close' of a socket that was open (the server or the network ends the
\* connection) or closing (the closing handshake completes)
WsCloseEvent(i) ==
    /\ i \in Sockets
    /\ left.sockets[i].readyState \in {OPEN, CLOSING}
    /\ left.sockets[i].readyState = OPEN => MayFail
    /\ \E jitter \in cfg.jitters :
         LET c == [left EXCEPT !.sockets[i] = ClosedSocket]
             d == IF left.sockets[i].listeners THEN closeHandler(c, i, now, jitter) ELSE c
         IN  WithinBounds(d) /\ left' = d
    /\ world' = IF left.sockets[i].readyState = OPEN THEN fault(world) ELSE world
    /\ UNCHANGED <<now, inflight, eventsSeen, disconnected, cfg, bridge>>
    /\ staleSeen' = (staleSeen \/ Stale(i))

\* failed or timed-out handshake: 'error' and 'close' are emitted together
WsHandshakeFail(i) ==
    /\ i \in Sockets
    /\ left.sockets[i].readyState = CONNECTING
    /\ MayFail
    /\ \E jitter \in cfg.jitters :
         LET c == [left EXCEPT !.sockets[i] = ClosedSocket]
             d == IF left.sockets[i].listeners THEN closeHandler(c, i, now, jitter) ELSE c
         IN  WithinBounds(d) /\ left' = d
    /\ world' = fault(world)
    /\ UNCHANGED <<now, inflight, eventsSeen, disconnected, cfg, bridge>>
    /\ staleSeen' = (staleSeen \/ Stale(i))

\* the socket still delivers frames: it is open, or the client sent its close
\* frame and the server's has not arrived yet
Delivers(i) ==
    /\ i \in Sockets
    /\ left.sockets[i].listeners
    /\ \/ left.sockets[i].readyState = OPEN
       \/ left.sockets[i].readyState = CLOSING /\ left.sockets[i].clientClosed

WsOtherMessage(i) ==
    /\ Delivers(i)
    /\ left' = otherMessageHandler(left, i, now)
    /\ eventsSeen' = (eventsSeen \/ i = left.wsConnectionId)
    /\ UNCHANGED <<now, inflight, disconnected, cfg, bridge, world>>
    /\ staleSeen' = (staleSeen \/ Stale(i))

\* the suspended callbacks and handlers working on message m
InFlightFor(kind, m) == {k \in 1..Len(inflight) : inflight[k].kind = kind /\ inflight[k].msg = m}

\* a 'posted' or 'post_edited' event for message m
WsMessage(i, kind, m) ==
    /\ Delivers(i)
    /\ <<kind, m>> \in cfg.events
    /\ m \in world.live
    /\ left' = messageHandlerSync(left, i, now, kind, m)
    /\ eventsSeen' = (eventsSeen \/ i = left.wsConnectionId)
    /\ IF messagePasses(left, i, kind, m)
       THEN /\ Len(inflight) < MaxInflight
            /\ inflight' = Append(inflight, [kind |-> kind, msg |-> m, pc |-> "lookup",
                                             n |-> IF cfg.track THEN world.arrivals + 1 ELSE 0,
                                             target |-> 0, assets |-> NoAssets, targetPost |-> "none"])
       ELSE inflight' = inflight
    /\ IF i # left.wsConnectionId
       THEN world' = world
       ELSE /\ cfg.track => world.arrivals < cfg.maxArrivals
            /\ LET out == IF ProcessingKey(kind, m) \in left.processingMessages THEN "dropped"
                          ELSE IF ChannelOf(m) \notin left.monitoredChannels THEN "unmonitored"
                          ELSE "pending"
                   w == arrive(world, out)
               IN  world' = IF cfg.track /\ out = "dropped"
                            THEN [w EXCEPT !.dropped = @ \cup {<<w.arrivals, inflight[k].n>> : k \in InFlightFor(kind, m)}]
                            ELSE w
    /\ UNCHANGED <<now, disconnected, cfg, bridge>>
    /\ staleSeen' = (staleSeen \/ Stale(i))

HeartbeatTick ==
    /\ left.hbTimers > 0
    /\ LET c == heartbeatTick(left, now) IN WithinBounds(c) /\ left' = c
    /\ UNCHANGED <<now, inflight, eventsSeen, disconnected, staleSeen, cfg, bridge, world>>

ReconnectTimerFires ==
    /\ left.reconnectTimer # NoTimer
    /\ LET c == reconnectTimerCallback(left) IN WithinBounds(c) /\ left' = c
    /\ UNCHANGED <<now, inflight, eventsSeen, disconnected, staleSeen, cfg, bridge, world>>

ForcedTimerFires ==
    /\ left.forcedTimers > 0
    /\ LET c == forcedTimerCallback(left) IN WithinBounds(c) /\ left' = c
    /\ UNCHANGED <<now, inflight, eventsSeen, disconnected, staleSeen, cfg, bridge, world>>

\* the finally of checkSession: check k is over
checkSessionFinally(c, k) ==
    [c EXCEPT !.sessionCheckInProgress = FALSE, !.checks = RemoveAt(@, k)]

\* GET /users/me of session check k returns: "ok", "auth" (401 or 403), "err"
SessionGetMeReturns(k, r) ==
    /\ k \in 1..Len(left.checks)
    /\ left.checks[k].pc = "getMe"
    /\ left' = CASE r = "ok"   -> checkSessionFinally([left EXCEPT !.lastAuthCheck = left.checks[k].now], k)
                 [] r = "auth" -> [left EXCEPT !.checks[k].pc = "login"]
                 [] OTHER      -> checkSessionFinally(left, k)
    /\ UNCHANGED <<now, inflight, eventsSeen, disconnected, staleSeen, cfg, bridge, world>>

\* login() of session check k returns with the token the server issued, or throws
SessionLoginReturns(k, ok, token) ==
    /\ k \in 1..Len(left.checks)
    /\ left.checks[k].pc = "login"
    /\ LET c == IF ok THEN forceReconnect([left EXCEPT !.token = token]) ELSE left
           d == checkSessionFinally(c, k)
       IN  WithinBounds(d) /\ left' = d
    /\ UNCHANGED <<now, inflight, eventsSeen, disconnected, staleSeen, cfg, bridge, world>>

\* the bridge's event summary interval fires
EventSummary ==
    /\ ~disconnected
    /\ left.messageHandler
    /\ LET c == logEventSummary(left, eventsSeen) IN WithinBounds(c) /\ left' = c
    /\ eventsSeen' = FALSE
    /\ bridge' = [bridge EXCEPT !.bridgeEvents = NoEvents]
    /\ UNCHANGED <<now, inflight, disconnected, staleSeen, cfg, world>>

AdvanceTime ==
    /\ now + cfg.step <= cfg.horizon
    /\ now' = now + cfg.step
    /\ UNCHANGED <<left, inflight, eventsSeen, disconnected, staleSeen, cfg, bridge, world>>

\* getUser (and getChannelById) awaited by the 'message' callback returns
CbLookupReturns(k, ok) ==
    /\ k \in 1..Len(inflight)
    /\ inflight[k].pc = "lookup"
    /\ LET d == inflight[k]
           handler == IF d.kind = "posted" THEN left.messageHandler ELSE left.messageEditHandler
       IN  IF ~ok
           THEN \* the catch of the callback: the key stays in processingMessages
                /\ inflight' = RemoveAt(inflight, k)
                /\ left' = left
                /\ world' = settle(world, d.n, "failed")
           ELSE IF handler
                THEN /\ inflight' = [inflight EXCEPT ![k].pc = "handler"]
                     /\ left' = [left EXCEPT !.channelCache = @ \cup {ChannelOf(d.msg)}]
                     /\ world' = world
                ELSE /\ inflight' = RemoveAt(inflight, k)
                     /\ left' = [left EXCEPT !.channelCache = @ \cup {ChannelOf(d.msg)},
                                             !.processingMessages = @ \ {ProcessingKey(d.kind, d.msg)}]
                     /\ world' = settle(world, d.n, "nohandler")
    /\ UNCHANGED <<now, eventsSeen, disconnected, staleSeen, cfg, bridge>>

\* the promise of the owner's handler resolves
HandlerResolves(k) ==
    /\ k \in 1..Len(inflight)
    /\ inflight[k].pc = "handler"
    /\ inflight' = RemoveAt(inflight, k)
    /\ left' = [left EXCEPT !.processingMessages = @ \ {ProcessingKey(inflight[k].kind, inflight[k].msg)}]
    /\ eventsSeen' = TRUE
    /\ UNCHANGED <<now, disconnected, staleSeen, cfg, bridge, world>>

----------------------------------------------------------------------------
(* MattermostBridge: handleMessage step by step, catch-up, stop and restart *)

\* the 'message' callback left by an exception of the handler: the key stays
returnedByThrow(c, d) == c

\* handleMessage returns to its caller: the 'message' callback deletes the key
\* of the message; performCatchUp goes on with its loop
returned(c, d) ==
    IF d.kind = "catchup"
    THEN c
    ELSE [c EXCEPT !.processingMessages = @ \ {ProcessingKey(d.kind, d.msg)}]

\* performCatchUp that gives up the backlog when a replay fails
replayedOrAborted(b, d, out) ==
    IF d.kind = "catchup" /\ out # "posted"
    THEN [b EXCEPT !.clean = FALSE, !.queue = << >>]
    ELSE b

\* performCatchUp replayed a message without forwarding it
replayed(b, d, out) ==
    IF d.kind = "catchup" /\ out # "posted" THEN [b EXCEPT !.clean = FALSE] ELSE b

HandlerReturns(k, out, b, w) ==
    /\ inflight' = RemoveAt(inflight, k)
    /\ left' = returned(left, inflight[k])
    /\ bridge' = replayed(b, inflight[k], out)
    /\ world' = settle(w, inflight[k].n, out)

\* trackBridgeEvent('message_bridged') and trackForwardedMessage, then return
Forwarded(k, b, w, r) ==
    LET d == inflight[k]
        t == trackForwardedMessage(b.tracker, w.disk, ChannelOf(d.msg), d.msg, r)
    IN  /\ HandlerReturns(k, "posted", [b EXCEPT !.tracker = t.tracker], [w EXCEPT !.disk = t.disk])
        /\ eventsSeen' = TRUE

\* handleMessage: getUser returns (user: "ok", "excluded" for an excluded email domain, "fail")
HmGetUserReturns(k, user) ==
    /\ k \in 1..Len(inflight)
    /\ inflight[k].kind # "edited"
    /\ inflight[k].pc = "handler"
    /\ CASE user = "fail"     -> HandlerReturns(k, "failed", bridge, world) /\ eventsSeen' = eventsSeen
         [] user = "excluded" -> /\ HandlerReturns(k, "excluded",
                                                   [bridge EXCEPT !.bridgeEvents.message_excluded = @ + 1],
                                                   world)
                                 /\ eventsSeen' = TRUE
         [] OTHER             -> /\ inflight' = [inflight EXCEPT ![k].pc = "assets"]
                                 /\ UNCHANGED <<left, bridge, world, eventsSeen>>
    /\ UNCHANGED <<now, disconnected, staleSeen, cfg>>

\* handleMessage: getUser returns a user with this email
HmGetUserEmail(k, email) ==
    HmGetUserReturns(k, IF shouldExclude(cfg.dontForwardFor, email) THEN "excluded" ELSE "ok")

\* handleMessage, once the avatar is settled: the call it waits for next
filesStage(a) ==
    IF a.pending # << >> THEN "fileDownload"
    ELSE IF a.filesToUpload # << >> THEN "fileUpload"
    ELSE "done"

\* handleMessage: the check of profilePictureCache
HmAvatarLookup(k) ==
    /\ k \in 1..Len(inflight)
    /\ inflight[k].pc = "assets"
    /\ inflight[k].assets.stage = "start"
    /\ LET d == inflight[k]
           a == [d.assets EXCEPT !.pending = FilesOf(d.msg)]
       IN  inflight' = [inflight EXCEPT ![k].assets =
                          IF bridge.profilePictureCache[UserOf(d.msg)] # 0
                          THEN [a EXCEPT !.profilePictureUrl = bridge.profilePictureCache[UserOf(d.msg)],
                                         !.stage = filesStage(a)]
                          ELSE [a EXCEPT !.stage = "avatarDownload"]]
    /\ UNCHANGED <<left, now, eventsSeen, disconnected, staleSeen, cfg, bridge, world>>

\* handleMessage that uploads whatever downloadProfilePicture returns
HmAvatarDownloadReturnsUnchecked(k, ok) ==
    /\ k \in 1..Len(inflight)
    /\ inflight[k].pc = "assets"
    /\ inflight[k].assets.stage = "avatarDownload"
    /\ inflight' = [inflight EXCEPT ![k].assets.stage = "avatarUpload"]
    /\ UNCHANGED <<left, now, eventsSeen, disconnected, staleSeen, cfg, bridge, world>>

\* handleMessage: downloadProfilePicture returns a buffer or null
HmAvatarDownloadReturns(k, ok) ==
    /\ k \in 1..Len(inflight)
    /\ inflight[k].pc = "assets"
    /\ inflight[k].assets.stage = "avatarDownload"
    /\ inflight' = [inflight EXCEPT ![k].assets.stage =
                       IF ok THEN "avatarUpload" ELSE filesStage(inflight[k].assets)]
    /\ UNCHANGED <<left, now, eventsSeen, disconnected, staleSeen, cfg, bridge, world>>

\* handleMessage: uploadProfilePicture, a request to the destination server,
\* returns a URL or null
HmAvatarUploadReturns(k, ok) ==
    /\ k \in 1..Len(inflight)
    /\ inflight[k].pc = "assets"
    /\ inflight[k].assets.stage = "avatarUpload"
    /\ LET d == inflight[k]
       IN  /\ inflight' = [inflight EXCEPT ![k].assets =
                             [d.assets EXCEPT !.profilePictureUrl =
                                                  IF ok THEN FileUrl(world.uploads + 1) ELSE 0,
                                              !.stage = filesStage(d.assets)]]
           /\ bridge' = IF ok
                        THEN [bridge EXCEPT !.profilePictureCache[UserOf(d.msg)] =
                                               FileUrl(world.uploads + 1)]
                        ELSE bridge
    /\ world' = [world EXCEPT !.uploads = @ + 1]
    /\ UNCHANGED <<left, now, eventsSeen, disconnected, staleSeen, cfg>>

\* handleMessage: downloadFile returns the next file of the message or null
\* (skipped: the files a failure was logged for)
HmFileDownloadReturns(k, ok) ==
    /\ k \in 1..Len(inflight)
    /\ inflight[k].pc = "assets"
    /\ inflight[k].assets.stage = "fileDownload"
    /\ LET a == inflight[k].assets
           b == [a EXCEPT !.pending = Tail(@),
                          !.filesToUpload = IF ok THEN Append(@, Head(a.pending)) ELSE @,
                          !.skipped = IF ok THEN @ ELSE @ \cup {Head(a.pending)}]
       IN  inflight' = [inflight EXCEPT ![k].assets = [b EXCEPT !.stage = filesStage(b)]]
    /\ UNCHANGED <<left, now, eventsSeen, disconnected, staleSeen, cfg, bridge, world>>

\* uploadMultipleFiles that returns what it has at the first upload that fails
HmFileUploadReturnsUntilFailure(k, ok) ==
    /\ k \in 1..Len(inflight)
    /\ inflight[k].pc = "assets"
    /\ inflight[k].assets.stage = "fileUpload"
    /\ LET a == inflight[k].assets
           b == [a EXCEPT !.filesToUpload = IF ok THEN Tail(@) ELSE << >>,
                          !.uploadedFileIds = IF ok THEN Append(@, Uploaded(Head(a.filesToUpload))) ELSE @,
                          !.skipped = IF ok THEN @ ELSE @ \cup {Head(a.filesToUpload)}]
       IN  inflight' = [inflight EXCEPT ![k].assets = [b EXCEPT !.stage = filesStage(b)]]
    /\ world' = [world EXCEPT !.uploads = @ + 1]
    /\ UNCHANGED <<left, now, eventsSeen, disconnected, staleSeen, cfg, bridge>>

\* uploadMultipleFiles: uploadFile, a request to the destination server,
\* returns the id of the next file or null
HmFileUploadReturns(k, ok) ==
    /\ k \in 1..Len(inflight)
    /\ inflight[k].pc = "assets"
    /\ inflight[k].assets.stage = "fileUpload"
    /\ LET a == inflight[k].assets
           b == [a EXCEPT !.filesToUpload = Tail(@),
                          !.uploadedFileIds = IF ok THEN Append(@, Uploaded(Head(a.filesToUpload))) ELSE @,
                          !.skipped = IF ok THEN @ ELSE @ \cup {Head(a.filesToUpload)}]
       IN  inflight' = [inflight EXCEPT ![k].assets = [b EXCEPT !.stage = filesStage(b)]]
    /\ world' = [world EXCEPT !.uploads = @ + 1]
    /\ UNCHANGED <<left, now, eventsSeen, disconnected, staleSeen, cfg, bridge>>

\* handleMessage without the dry-run check
SubmitAlways(k) ==
    /\ inflight' = [inflight EXCEPT ![k].pc = "post"]
    /\ UNCHANGED <<left, bridge, world, eventsSeen>>
    /\ UNCHANGED <<now, disconnected, staleSeen, cfg>>

\* handleMessage at its dry-run check: dry-run ends here, otherwise
\* postMessageWithAttachment is called
Submit(k) ==
    /\ IF cfg.dryRun
       THEN HandlerReturns(k, "dryrun", bridge, world) /\ eventsSeen' = TRUE
       ELSE /\ inflight' = [inflight EXCEPT ![k].pc = "post"]
            /\ UNCHANGED <<left, bridge, world, eventsSeen>>
    /\ UNCHANGED <<now, disconnected, staleSeen, cfg>>

\* handleMessage: the avatar and the attachments are done (their failures are
\* absorbed by the client), in one step
HmAssetsDone(k) ==
    /\ k \in 1..Len(inflight)
    /\ inflight[k].pc = "assets"
    /\ Submit(k)

\* handleMessage: the avatar and the attachments are done, call by call
HmAssetsReady(k) ==
    /\ k \in 1..Len(inflight)
    /\ inflight[k].pc = "assets"
    /\ inflight[k].assets.stage = "done"
    /\ Submit(k)

\* handleMessage: postMessageWithAttachment returns or throws
HmPostReturns(k, ok, r) ==
    /\ k \in 1..Len(inflight)
    /\ inflight[k].pc = "post"
    /\ LET d == inflight[k]
           w == [world EXCEPT !.posts = Append(@, [src |-> d.msg, by |-> d.n, updates |-> 0,
                                                    author_icon |-> d.assets.profilePictureUrl,
                                                    has_file_ids |-> Len(d.assets.uploadedFileIds) > 0,
                                                    file_ids |-> d.assets.uploadedFileIds])]
           b == [bridge EXCEPT !.messageIdMap = mapSet(@, d.msg, Len(w.posts))]
       IN  IF ~ok
           THEN HandlerReturns(k, "failed", bridge, world) /\ eventsSeen' = eventsSeen
           ELSE IF cfg.leftMessageEmoji
                THEN /\ inflight' = [inflight EXCEPT ![k].pc = "react"]
                     /\ bridge' = b
                     /\ world' = w
                     /\ UNCHANGED <<left, eventsSeen>>
                ELSE Forwarded(k, b, w, r)
    /\ UNCHANGED <<now, disconnected, staleSeen, cfg>>

\* handleMessage: addReaction returns (it never throws)
HmReactReturns(k, r) ==
    /\ k \in 1..Len(inflight)
    /\ inflight[k].pc = "react"
    /\ Forwarded(k, bridge, world, r)
    /\ UNCHANGED <<now, disconnected, staleSeen, cfg>>

\* getUser of the 'message' callback returns for a posted event
PostedLookupReturns(k, ok) ==
    /\ k \in 1..Len(inflight)
    /\ inflight[k].kind = "posted"
    /\ CbLookupReturns(k, ok)

\* getUser of the 'message' callback returns for a post_edited event; the
\* callback calls handleMessageEdit, which runs up to its first await
HeStarts(k, ok, ignored) ==
    /\ k \in 1..Len(inflight)
    /\ inflight[k].kind = "edited"
    /\ inflight[k].pc = "lookup"
    /\ LET d == inflight[k]
           h == handleMessageEdit(bridge.messageIdMap, d.msg, ignored)
           cached == [left EXCEPT !.channelCache = @ \cup {ChannelOf(d.msg)}]
       IN  IF ~ok
           THEN /\ inflight' = RemoveAt(inflight, k)
                /\ world' = settle(world, d.n, "failed")
                /\ UNCHANGED <<left, bridge, eventsSeen>>
           ELSE IF ~left.messageEditHandler
                THEN /\ inflight' = RemoveAt(inflight, k)
                     /\ left' = returned(cached, d)
                     /\ world' = settle(world, d.n, "nohandler")
                     /\ UNCHANGED <<bridge, eventsSeen>>
                ELSE /\ eventsSeen' = TRUE
                     /\ IF h.next = "getPost"
                        THEN /\ inflight' = [inflight EXCEPT ![k].pc = "getPost", ![k].target = h.target]
                             /\ left' = cached
                             /\ UNCHANGED <<bridge, world>>
                        ELSE /\ inflight' = RemoveAt(inflight, k)
                             /\ left' = returned(cached, d)
                             /\ bridge' = bridge
                             /\ world' = settle(world, d.n, h.next)
    /\ UNCHANGED <<now, disconnected, staleSeen, cfg>>

\* handleMessageEdit that does not look at the type of the target post
HeGetPostReturnsAnyType(k, r) ==
    /\ k \in 1..Len(inflight)
    /\ inflight[k].pc = "getPost"
    /\ CASE r = "null"   -> HandlerReturns(k, "notarget", bridge, world) /\ eventsSeen' = eventsSeen
         [] OTHER        -> IF cfg.dryRun
                            THEN HandlerReturns(k, "dryrun", bridge, world) /\ eventsSeen' = TRUE
                            ELSE /\ inflight' = [inflight EXCEPT ![k].pc = "update", ![k].targetPost = r]
                                 /\ UNCHANGED <<left, bridge, world, eventsSeen>>
    /\ UNCHANGED <<now, disconnected, staleSeen, cfg>>

\* handleMessageEdit: getPost returns the target post ("ok"), a system message
\* ("system") or null ("null": the request failed, getPost does not throw)
HeGetPostReturns(k, r) ==
    /\ k \in 1..Len(inflight)
    /\ inflight[k].pc = "getPost"
    /\ CASE r = "null"   -> HandlerReturns(k, "notarget", bridge, world) /\ eventsSeen' = eventsSeen
         [] r = "system" -> HandlerReturns(k, "system", bridge, world) /\ eventsSeen' = eventsSeen
         [] OTHER        -> IF cfg.dryRun
                            THEN HandlerReturns(k, "dryrun", bridge, world) /\ eventsSeen' = TRUE
                            ELSE /\ inflight' = [inflight EXCEPT ![k].pc = "update", ![k].targetPost = r]
                                 /\ UNCHANGED <<left, bridge, world, eventsSeen>>
    /\ UNCHANGED <<now, disconnected, staleSeen, cfg>>

\* handleMessageEdit: updateMessage returns or throws
HeUpdateReturns(k, ok) ==
    /\ k \in 1..Len(inflight)
    /\ inflight[k].pc = "update"
    /\ IF ok
       THEN /\ HandlerReturns(k, "updated", bridge,
                              [world EXCEPT !.posts[inflight[k].target].updates = @ + 1])
            /\ eventsSeen' = TRUE
       ELSE HandlerReturns(k, "failed", bridge, world) /\ eventsSeen' = eventsSeen
    /\ UNCHANGED <<now, disconnected, staleSeen, cfg>>

\* a user posts the next message on the source server, which broadcasts a
\* posted event if the client's stream is open
ServerPost ==
    /\ world.history < cfg.maxMsgs
    /\ world' = [world EXCEPT !.history = @ + 1,
                              !.live = IF wsState(left) = OPEN THEN @ \cup {world.history + 1} ELSE @]
    /\ UNCHANGED <<left, now, inflight, eventsSeen, disconnected, staleSeen, cfg, bridge>>

\* a user edits message m on the source server, which sets its update_at
ServerEdit(m) ==
    /\ m \in 1..world.history
    /\ world.edits[m] # EditAt(world.history)
    /\ world' = [world EXCEPT !.edits[m] = EditAt(world.history)]
    /\ UNCHANGED <<left, now, inflight, eventsSeen, disconnected, staleSeen, cfg, bridge>>

\* performCatchUp: getMessagesSince returns for the next source channel
CatchUpFetch(sinceOk, ok) ==
    /\ bridge.phase = "start"
    /\ LET channelId == Head(bridge.todo)
           since == sinceTimestamp(bridge.tracker, channelId, now)
           missedMessages == getMessagesSince(world, channelId, since,
                                              cfg.maxMessagesToRecover, sinceOk, ok)
       IN  bridge' = [bridge EXCEPT !.phase = "catchup",
                                    !.lastTracked = getLastForwardedMessage(bridge.tracker, channelId),
                                    !.missedMessages = missedMessages,
                                    !.queue = missedMessages,
                                    !.clean = @ /\ ok]
    /\ UNCHANGED <<left, now, inflight, eventsSeen, disconnected, staleSeen, cfg, world>>

\* performCatchUp: handleMessage is called for the next missed message
CatchUpNext ==
    /\ bridge.phase = "catchup"
    /\ bridge.queue # << >>
    /\ \A k \in 1..Len(inflight) : inflight[k].kind # "catchup"
    /\ Len(inflight) < MaxInflight
    /\ cfg.track => world.arrivals < cfg.maxArrivals
    /\ inflight' = Append(inflight, [kind |-> "catchup", msg |-> Head(bridge.queue), pc |-> "handler",
                                     n |-> IF cfg.track THEN world.arrivals + 1 ELSE 0,
                                     target |-> 0, assets |-> NoAssets, targetPost |-> "none"])
    /\ world' = arrive(world, "pending")
    /\ bridge' = [bridge EXCEPT !.queue = Tail(@)]
    /\ UNCHANGED <<left, now, eventsSeen, disconnected, staleSeen, cfg>>

\* performCatchUp: the channel is done; after the last one start() goes on to connect
CatchUpChannelDone ==
    /\ bridge.phase = "catchup"
    /\ bridge.queue = << >>
    /\ \A k \in 1..Len(inflight) : inflight[k].kind # "catchup"
    /\ bridge' = [bridge EXCEPT !.todo = Tail(@),
                                !.lastTracked = NoTrack,
                                !.missedMessages = << >>,
                                !.phase = IF Tail(bridge.todo) = << >> THEN "connect" ELSE "start"]
    /\ UNCHANGED <<left, now, inflight, eventsSeen, disconnected, staleSeen, cfg, world>>

\* the process exits (after stop(), or killed) and is started again: the
\* constructor of the bridge builds new clients and loads the tracking file
ProcessRestart(r) ==
    /\ world.restarts < cfg.maxRestarts
    /\ LET l == loadOrInitialize(world.disk, r)
       IN  /\ bridge' = InitBridge(IF cfg.catchUp THEN "start" ELSE "connect", l.tracker, Unforwarded(world))
           /\ world' = [world EXCEPT !.disk = l.disk, !.restarts = @ + 1]
    /\ left' = InitClient
    /\ inflight' = << >>
    /\ eventsSeen' = FALSE
    /\ disconnected' = FALSE
    /\ UNCHANGED <<now, staleSeen, cfg>>

\* the configuration of the specs of the supervisor: catch-up disabled, no
\* restart, and no record of the deliveries
NoForwarding ==
    [catchUp |-> FALSE, dryRun |-> FALSE, leftMessageEmoji |-> FALSE,
     maxMessagesToRecover |-> MaxRecover,
     track |-> FALSE, maxArrivals |-> 0, maxRestarts |-> 0, maxMsgs |-> Cardinality(MsgIds),
     limitFaults |-> FALSE, maxFaults |-> 0, jitters |-> Jitters,
     maxChecks |-> MaxChecks, tokens |-> {1}, step |-> HeartbeatSeconds,
     dontForwardFor |-> << >>]

InitConn ==
    /\ left = InitClient
    /\ now = StartTime
    /\ inflight = << >>
    /\ eventsSeen = FALSE
    /\ disconnected = FALSE
    /\ staleSeen = FALSE
    /\ cfg = [maxSockets |-> MaxSockets, maxAttempts |-> MaxAttempts, maxForced |-> MaxForced,
              horizon |-> StartTime + MaxTicks * HeartbeatSeconds,
              events |-> {}] @@ NoForwarding
    /\ bridge = InitBridge("connect", InitTracker, {})
    /\ world = InitWorld(Cardinality(MsgIds))

\* the supervisor with message delivery: no clock, fewer sockets
InitDeliver ==
    /\ left = InitClient
    /\ now = StartTime
    /\ inflight = << >>
    /\ eventsSeen = FALSE
    /\ disconnected = FALSE
    /\ staleSeen = FALSE
    /\ cfg = [maxSockets |-> MaxSocketsDeliver, maxAttempts |-> 1, maxForced |-> 1,
              horizon |-> StartTime,
              events |-> {<<"posted", 1>>, <<"edited", 1>>}] @@ NoForwarding
    /\ bridge = InitBridge("connect", InitTracker, {})
    /\ world = InitWorld(Cardinality(MsgIds))

\* the lifecycle of the connection: owner calls, socket events, timers, session checks
NextLifecycle ==
    \/ BridgeStart
    \/ OwnerDisconnect
    \/ \E i \in Sockets : WsOpenEvent(i)
    \/ \E i \in Sockets : WsPongEvent(i)
    \/ \E i \in Sockets : WsErrorEvent(i)
    \/ \E i \in Sockets : WsCloseEvent(i)
    \/ \E i \in Sockets : WsHandshakeFail(i)
    \/ \E i \in Sockets : WsOtherMessage(i)
    \/ HeartbeatTick
    \/ ReconnectTimerFires
    \/ ForcedTimerFires
    \/ \E k \in 1..MaxChecks, r \in {"ok", "auth", "err"} : SessionGetMeReturns(k, r)
    \/ \E k \in 1..MaxChecks, ok \in BOOLEAN, token \in cfg.tokens : SessionLoginReturns(k, ok, token)
    \/ EventSummary

\* the delivery of posted / post_edited events to the owner's handlers
NextDelivery ==
    \/ \E i \in Sockets, kind \in EventKinds, m \in MsgIds : WsMessage(i, kind, m)
    \/ \E k \in 1..MaxInflight, ok \in BOOLEAN : CbLookupReturns(k, ok)
    \/ \E k \in 1..MaxInflight : HandlerResolves(k)

NextConn == NextLifecycle \/ AdvanceTime

NextDeliver ==
    \/ NextLifecycle
    \/ NextDelivery
    \/ \E channelIds \in {Channels, Channels \ SourceChannels} : OwnerReconnect(channelIds)

SpecDeliver == InitDeliver /\ [][NextDeliver]_vars

\* consecutive failures and recoveries of the connection, up to the backoff cap
InitBackoff ==
    /\ left = InitClient
    /\ now = StartTime
    /\ inflight = << >>
    /\ eventsSeen = FALSE
    /\ disconnected = FALSE
    /\ staleSeen = FALSE
    /\ cfg = [maxSockets |-> MaxAttemptsBackoff + 1, maxAttempts |-> MaxAttemptsBackoff,
              maxForced |-> 0, horizon |-> StartTime, events |-> {}]
             @@ [NoForwarding EXCEPT !.jitters = AllJitters]
    /\ bridge = InitBridge("connect", InitTracker, {})
    /\ world = InitWorld(Cardinality(MsgIds))

NextBackoff ==
    \/ BridgeStart
    \/ \E i \in Sockets : WsOpenEvent(i)
    \/ \E i \in Sockets : WsCloseEvent(i)
    \/ \E i \in Sockets : WsHandshakeFail(i)
    \/ ReconnectTimerFires

SpecBackoff == InitBackoff /\ [][NextBackoff]_vars

SpecConn == InitConn /\ [][NextConn]_vars

\* the supervisor under a limited number of failures, for the liveness of the
\* connection: the limits on sockets and attempts are never reached
InitLive ==
    /\ left = InitClient
    /\ now = StartTime
    /\ inflight = << >>
    /\ eventsSeen = FALSE
    /\ disconnected = FALSE
    /\ staleSeen = FALSE
    /\ cfg = [maxSockets |-> 2 * (MaxFaults + MaxTicksLive) + 2, maxAttempts |-> MaxFaults + 1,
              maxForced |-> MaxForced,
              horizon |-> StartTime + MaxTicksLive * HeartbeatSeconds,
              events |-> {}]
             @@ [NoForwarding EXCEPT !.limitFaults = TRUE, !.maxFaults = MaxFaults]
    /\ bridge = InitBridge("connect", InitTracker, {})
    /\ world = InitWorld(Cardinality(MsgIds))

\* the closing handshake of socket i completes
WsClosingCompletes(i) == left.sockets[i].readyState = CLOSING /\ WsCloseEvent(i)

\* timers fire (setTimeout, setInterval), a handshake and a closing handshake
\* come to an end, the clock advances
FairLive ==
    /\ WF_vars(ReconnectTimerFires)
    /\ WF_vars(ForcedTimerFires)
    /\ WF_vars(EventSummary)
    /\ WF_vars(HeartbeatTick)
    /\ WF_vars(AdvanceTime)
    /\ WF_vars(\E i \in Sockets : WsOpenEvent(i))
    /\ WF_vars(\E i \in Sockets : WsClosingCompletes(i))

SpecLive == InitLive /\ [][NextConn]_vars /\ FairLive

\* the heartbeat of one connection after the other, on a finer clock: pongs and
\* events arrive or stay away, the tick probes, pings or tears down
InitBeat ==
    /\ left = InitClient
    /\ now = StartTime
    /\ inflight = << >>
    /\ eventsSeen = FALSE
    /\ disconnected = FALSE
    /\ staleSeen = FALSE
    /\ cfg = [maxSockets |-> 2, maxAttempts |-> 1, maxForced |-> 1,
              horizon |-> StartTime + MaxStepsBeat * BeatStep,
              events |-> {}] @@ [NoForwarding EXCEPT !.step = BeatStep]
    /\ bridge = InitBridge("connect", InitTracker, {})
    /\ world = InitWorld(Cardinality(MsgIds))

NextBeat ==
    \/ BridgeStart
    \/ \E i \in Sockets : WsOpenEvent(i)
    \/ \E i \in Sockets : WsPongEvent(i)
    \/ \E i \in Sockets : WsOtherMessage(i)
    \/ HeartbeatTick
    \/ ForcedTimerFires
    \/ AdvanceTime

SpecBeat == InitBeat /\ [][NextBeat]_vars

\* the routing of posted and post_edited events of both channels while the
\* owner changes the monitored set; the deliveries are recorded
InitRoute ==
    /\ left = InitClient
    /\ now = StartTime
    /\ inflight = << >>
    /\ eventsSeen = FALSE
    /\ disconnected = FALSE
    /\ staleSeen = FALSE
    /\ cfg = [maxSockets |-> 1, maxAttempts |-> 1, maxForced |-> 0,
              horizon |-> StartTime,
              events |-> EventKinds \X MsgIds]
             @@ [NoForwarding EXCEPT !.track = TRUE, !.maxArrivals = MaxArrivalsRoute]
    /\ bridge = InitBridge("connect", InitTracker, {})
    /\ world = InitWorld(Cardinality(MsgIds))

NextRoute ==
    \/ BridgeStart
    \/ \E channelIds \in {Channels, Channels \ SourceChannels} : OwnerReconnect(channelIds)
    \/ \E i \in Sockets : WsOpenEvent(i)
    \/ NextDelivery

SpecRoute == InitRoute /\ [][NextRoute]_vars

\* the supervisor with a server that expires sessions and issues new tokens
InitAuth ==
    /\ left = InitClient
    /\ now = StartTime
    /\ inflight = << >>
    /\ eventsSeen = FALSE
    /\ disconnected = FALSE
    /\ staleSeen = FALSE
    /\ cfg = [maxSockets |-> MaxSocketsAuth, maxAttempts |-> 2, maxForced |-> 1,
              horizon |-> StartTime + MaxTicksAuth * HeartbeatSeconds,
              events |-> {}] @@ [NoForwarding EXCEPT !.tokens = Tokens]
    /\ bridge = InitBridge("connect", InitTracker, {})
    /\ world = InitWorld(Cardinality(MsgIds))

SpecAuth == InitAuth /\ [][NextConn]_vars

\* posted and post_edited events of one message through handleMessage and
\* handleMessageEdit, across a restart of the process (which empties the id map)
InitEdit ==
    /\ left = InitClient
    /\ now = StartTime
    /\ inflight = << >>
    /\ eventsSeen = FALSE
    /\ disconnected = FALSE
    /\ staleSeen = FALSE
    /\ \E dryRun \in BOOLEAN :
         cfg = [maxSockets |-> 1, maxAttempts |-> 1, maxForced |-> 0,
                horizon |-> StartTime,
                events |-> EventKinds \X {1}]
               @@ [NoForwarding EXCEPT !.dryRun = dryRun, !.track = TRUE,
                                       !.maxArrivals = MaxArrivalsEdit,
                                       !.maxRestarts = MaxRestartsEdit]
    /\ bridge = InitBridge("connect", InitTracker, {})
    /\ world = InitWorld(1)

NextEdit ==
    \/ BridgeStart
    \/ \E i \in Sockets : WsOpenEvent(i)
    \/ \E i \in Sockets, kind \in EventKinds, m \in MsgIds : WsMessage(i, kind, m)
    \/ \E k \in 1..MaxInflight, ok \in BOOLEAN : PostedLookupReturns(k, ok)
    \/ \E k \in 1..MaxInflight, user \in {"ok", "excluded", "fail"} : HmGetUserReturns(k, user)
    \/ \E k \in 1..MaxInflight : HmAssetsDone(k)
    \/ \E k \in 1..MaxInflight, ok \in BOOLEAN, r \in FsResults : HmPostReturns(k, ok, r)
    \/ \E k \in 1..MaxInflight, ok \in BOOLEAN, ignored \in BOOLEAN : HeStarts(k, ok, ignored)
    \/ \E k \in 1..MaxInflight, r \in {"ok", "system", "null"} : HeGetPostReturns(k, r)
    \/ \E k \in 1..MaxInflight, ok \in BOOLEAN : HeUpdateReturns(k, ok)
    \/ \E r \in FsResults : ProcessRestart(r)

SpecEdit == InitEdit /\ [][NextEdit]_vars

\* the id of the j-th message the running bridge forwarded earlier
Earlier(j) == 1000 + j

\* a bridge that has been running: its stream is open and it has forwarded n
\* messages, the first of which was message 1 or an earlier one
Running(n, first) ==
    LET key(j) == IF j = 1 /\ first THEN 1 ELSE Earlier(j)
        c1 == [connectWebSocket(InitClient, SourceChannels) EXCEPT !.messageEditHandler = TRUE]
        c2 == openHandler([c1 EXCEPT !.sockets[1].readyState = OPEN], 1, StartTime)
    IN  [ left |-> c2,
          bridge |-> [InitBridge("live", InitTracker, {}) EXCEPT
                        !.messageIdMap = [j \in 1..n |-> [src |-> key(j), dst |-> j]]],
          world |-> [InitWorld(2) EXCEPT
                        !.posts = [j \in 1..n |-> [src |-> key(j), by |-> 0, updates |-> 0,
                                                        author_icon |-> 0, has_file_ids |-> FALSE,
                                                        file_ids |-> << >>]]] ]

\* the id map near its capacity: messages 1 and 2 are forwarded and forwarded again
InitMap ==
    /\ now = StartTime
    /\ inflight = << >>
    /\ eventsSeen = FALSE
    /\ disconnected = FALSE
    /\ staleSeen = FALSE
    /\ cfg = [maxSockets |-> 1, maxAttempts |-> 1, maxForced |-> 0,
              horizon |-> StartTime,
              events |-> {"posted"} \X {1, 2}]
             @@ [NoForwarding EXCEPT !.track = TRUE, !.maxArrivals = MaxArrivalsMap]
    /\ \E n \in (MapCap - MapSlack)..MapCap, first \in BOOLEAN :
         /\ left = Running(n, first).left
         /\ bridge = Running(n, first).bridge
         /\ world = Running(n, first).world

NextMap ==
    \/ \E i \in Sockets, m \in MsgIds : WsMessage(i, "posted", m)
    \/ \E k \in 1..MaxInflight, ok \in BOOLEAN : PostedLookupReturns(k, ok)
    \/ \E k \in 1..MaxInflight, user \in {"ok", "excluded", "fail"} : HmGetUserReturns(k, user)
    \/ \E k \in 1..MaxInflight : HmAssetsDone(k)
    \/ \E k \in 1..MaxInflight, ok \in BOOLEAN, r \in FsResults : HmPostReturns(k, ok, r)

SpecMap == InitMap /\ [][NextMap]_vars

\* the forward and the edit of a message with the tracker enabled, in dry-run
\* mode and outside it
InitDryRun ==
    /\ left = InitClient
    /\ now = StartTime
    /\ inflight = << >>
    /\ eventsSeen = FALSE
    /\ disconnected = FALSE
    /\ staleSeen = FALSE
    /\ \E dryRun \in BOOLEAN :
         cfg = [maxSockets |-> 1, maxAttempts |-> 1, maxForced |-> 0,
                horizon |-> StartTime,
                events |-> EventKinds \X {1}]
               @@ [NoForwarding EXCEPT !.dryRun = dryRun, !.catchUp = TRUE, !.track = TRUE,
                                       !.maxArrivals = MaxArrivalsDryRun]
    /\ bridge = InitBridge("connect", InitTracker, {})
    /\ world = [InitWorld(1) EXCEPT !.disk = File(EmptyData)]

NextDryRun ==
    \/ BridgeStart
    \/ \E i \in Sockets : WsOpenEvent(i)
    \/ \E i \in Sockets, kind \in EventKinds, m \in MsgIds : WsMessage(i, kind, m)
    \/ \E k \in 1..MaxInflight, ok \in BOOLEAN : PostedLookupReturns(k, ok)
    \/ \E k \in 1..MaxInflight, user \in {"ok", "excluded", "fail"} : HmGetUserReturns(k, user)
    \/ \E k \in 1..MaxInflight : HmAssetsDone(k)
    \/ \E k \in 1..MaxInflight, ok \in BOOLEAN, r \in FsResults : HmPostReturns(k, ok, r)
    \/ \E k \in 1..MaxInflight, ok \in BOOLEAN, ignored \in BOOLEAN : HeStarts(k, ok, ignored)
    \/ \E k \in 1..MaxInflight, r \in {"ok", "system", "null"} : HeGetPostReturns(k, r)
    \/ \E k \in 1..MaxInflight, ok \in BOOLEAN : HeUpdateReturns(k, ok)

SpecDryRun == InitDryRun /\ [][NextDryRun]_vars

\* start() from its first step, against servers that answer in every way
InitStart ==
    /\ left = InitClient
    /\ now = StartTime
    /\ inflight = << >>
    /\ eventsSeen = FALSE
    /\ disconnected = FALSE
    /\ staleSeen = FALSE
    /\ \E catchUp \in BOOLEAN :
         cfg = [maxSockets |-> 1, maxAttempts |-> 1, maxForced |-> 0,
                horizon |-> StartTime,
                events |-> {"posted"} \X {1}]
               @@ [NoForwarding EXCEPT !.catchUp = catchUp, !.track = TRUE,
                                       !.maxMessagesToRecover = MaxRecover,
                                       !.maxArrivals = MaxArrivalsStart]
    /\ bridge = InitBridge("leftPing", InitTracker, {})
    /\ \E servers \in Servers :
         world = [InitWorld(1) EXCEPT !.disk = File(EmptyData), !.servers = servers]

NextStart ==
    \/ StartPingReturns
    \/ StartLoginReturns
    \/ StartSourceReturns
    \/ StartTargetReturns
    \/ StartIsMemberReturns
    \/ StartJoinReturns
    \/ StartTargetAgainReturns
    \/ \E sinceOk \in BOOLEAN, ok \in BOOLEAN : CatchUpFetch(sinceOk, ok)
    \/ CatchUpNext
    \/ CatchUpChannelDone
    \/ BridgeStart
    \/ \E i \in Sockets : WsOpenEvent(i)
    \/ \E i \in Sockets, m \in MsgIds : WsMessage(i, "posted", m)
    \/ \E k \in 1..MaxInflight, ok \in BOOLEAN : PostedLookupReturns(k, ok)
    \/ \E k \in 1..MaxInflight, user \in {"ok", "excluded", "fail"} : HmGetUserReturns(k, user)
    \/ \E k \in 1..MaxInflight : HmAssetsDone(k)
    \/ \E k \in 1..MaxInflight, ok \in BOOLEAN, r \in FsResults : HmPostReturns(k, ok, r)
    \/ EventSummary
    \/ OwnerDisconnect

SpecStart == InitStart /\ [][NextStart]_vars

\* handleMessage call by call: the email filter, the avatar, the attachments,
\* the dry-run check and the post, for messages delivered on the stream
InitAssets ==
    /\ left = InitClient
    /\ now = StartTime
    /\ inflight = << >>
    /\ eventsSeen = FALSE
    /\ disconnected = FALSE
    /\ staleSeen = FALSE
    /\ \E dryRun \in BOOLEAN, dontForwardFor \in DontForwardLists :
         cfg = [maxSockets |-> 1, maxAttempts |-> 1, maxForced |-> 0,
                horizon |-> StartTime,
                events |-> {"posted"} \X {1, 2}]
               @@ [NoForwarding EXCEPT !.dryRun = dryRun, !.track = TRUE,
                                       !.maxArrivals = MaxArrivalsAssets,
                                       !.dontForwardFor = dontForwardFor]
    /\ bridge = InitBridge("connect", InitTracker, {})
    /\ world = InitWorld(2)

NextAssets ==
    \/ BridgeStart
    \/ \E i \in Sockets : WsOpenEvent(i)
    \/ \E i \in Sockets, m \in MsgIds : WsMessage(i, "posted", m)
    \/ \E k \in 1..MaxInflight, ok \in BOOLEAN : PostedLookupReturns(k, ok)
    \/ \E k \in 1..MaxInflight : HmGetUserReturns(k, "fail")
    \/ \E k \in 1..MaxInflight, email \in Emails : HmGetUserEmail(k, email)
    \/ \E k \in 1..MaxInflight : HmAvatarLookup(k)
    \/ \E k \in 1..MaxInflight, ok \in BOOLEAN : HmAvatarDownloadReturns(k, ok)
    \/ \E k \in 1..MaxInflight, ok \in BOOLEAN : HmAvatarUploadReturns(k, ok)
    \/ \E k \in 1..MaxInflight, ok \in BOOLEAN : HmFileDownloadReturns(k, ok)
    \/ \E k \in 1..MaxInflight, ok \in BOOLEAN : HmFileUploadReturns(k, ok)
    \/ \E k \in 1..MaxInflight : HmAssetsReady(k)
    \/ \E k \in 1..MaxInflight, ok \in BOOLEAN, r \in FsResults : HmPostReturns(k, ok, r)

SpecAssets == InitAssets /\ [][NextAssets]_vars

\* catch-up on a source server whose messages are posted and edited while the
\* bridge runs and while it is down: both queries of getMessagesSince, the
\* replay, the connection after it, live deliveries, restart of the process
InitCatchUp ==
    /\ left = InitClient
    /\ now = StartTime
    /\ inflight = << >>
    /\ eventsSeen = FALSE
    /\ disconnected = FALSE
    /\ staleSeen = FALSE
    /\ cfg = [maxSockets |-> 1, maxAttempts |-> 1, maxForced |-> 0,
              horizon |-> StartTime,
              events |-> {"posted"} \X (1..MaxMsgsCatchUp)]
             @@ [NoForwarding EXCEPT !.catchUp = TRUE, !.track = TRUE,
                                     !.maxMessagesToRecover = MaxRecover,
                                     !.maxArrivals = MaxArrivalsCatchUp,
                                     !.maxRestarts = MaxRestartsCatchUp,
                                     !.maxMsgs = MaxMsgsCatchUp]
    /\ bridge = InitBridge("start", InitTracker, {})
    /\ world = [InitWorld(0) EXCEPT !.disk = File(EmptyData)]

NextCatchUp ==
    \/ ServerPost
    \/ \E m \in MsgIds : ServerEdit(m)
    \/ \E sinceOk \in BOOLEAN, ok \in BOOLEAN : CatchUpFetch(sinceOk, ok)
    \/ CatchUpNext
    \/ CatchUpChannelDone
    \/ BridgeStart
    \/ \E i \in Sockets : WsOpenEvent(i)
    \/ \E i \in Sockets, m \in MsgIds : WsMessage(i, "posted", m)
    \/ \E k \in 1..MaxInflight, ok \in BOOLEAN : PostedLookupReturns(k, ok)
    \/ \E k \in 1..MaxInflight, user \in {"ok", "excluded", "fail"} : HmGetUserReturns(k, user)
    \/ \E k \in 1..MaxInflight : HmAssetsDone(k)
    \/ \E k \in 1..MaxInflight, ok \in BOOLEAN, r \in FsResults : HmPostReturns(k, ok, r)
    \/ \E r \in FsResults : ProcessRestart(r)

SpecCatchUp == InitCatchUp /\ [][NextCatchUp]_vars

\* catch-up with a backlog that can exceed config.catchUp.maxMessagesToRecover
InitRecover ==
    /\ left = InitClient
    /\ now = StartTime
    /\ inflight = << >>
    /\ eventsSeen = FALSE
    /\ disconnected = FALSE
    /\ staleSeen = FALSE
    /\ cfg = [maxSockets |-> 1, maxAttempts |-> 1, maxForced |-> 0,
              horizon |-> StartTime,
              events |-> {"posted"} \X (1..MaxMsgsCatchUp)]
             @@ [NoForwarding EXCEPT !.catchUp = TRUE, !.track = TRUE,
                                     !.maxMessagesToRecover = MaxRecoverSmall,
                                     !.maxArrivals = MaxArrivalsCatchUp,
                                     !.maxRestarts = MaxRestartsCatchUp,
                                     !.maxMsgs = MaxMsgsCatchUp]
    /\ bridge = InitBridge("start", InitTracker, {})
    /\ world = [InitWorld(0) EXCEPT !.disk = File(EmptyData)]

SpecRecover == InitRecover /\ [][NextCatchUp]_vars

\* the forwarding pipeline: catch-up enabled, messages posted while the bridge
\* runs, deliveries of posted events, stop and restart of the process
InitFwd ==
    /\ left = InitClient
    /\ now = StartTime
    /\ inflight = << >>
    /\ eventsSeen = FALSE
    /\ disconnected = FALSE
    /\ staleSeen = FALSE
    /\ \E dryRun \in BOOLEAN, leftMessageEmoji \in BOOLEAN :
         cfg = [maxSockets |-> MaxSocketsFwd, maxAttempts |-> 1, maxForced |-> 0,
                horizon |-> StartTime,
                events |-> {"posted"} \X (1..MaxMsgs),
                catchUp |-> TRUE, dryRun |-> dryRun, leftMessageEmoji |-> leftMessageEmoji,
                maxMessagesToRecover |-> MaxRecover,
                track |-> TRUE, maxArrivals |-> MaxArrivals, maxRestarts |-> MaxRestarts,
                maxMsgs |-> MaxMsgs, limitFaults |-> FALSE, maxFaults |-> 0, jitters |-> Jitters,
                maxChecks |-> MaxChecks, tokens |-> {1}, step |-> HeartbeatSeconds,
                dontForwardFor |-> << >>]
    /\ bridge = InitBridge("start", InitTracker, {})
    /\ world = [InitWorld(0) EXCEPT !.disk = File(EmptyData)]

NextFwd ==
    \/ ServerPost
    \/ \E ok \in BOOLEAN : CatchUpFetch(TRUE, ok)
    \/ CatchUpNext
    \/ CatchUpChannelDone
    \/ BridgeStart
    \/ \E i \in Sockets : WsOpenEvent(i)
    \/ \E i \in Sockets : WsCloseEvent(i)
    \/ ReconnectTimerFires
    \/ \E i \in Sockets, m \in MsgIds : WsMessage(i, "posted", m)
    \/ \E k \in 1..MaxInflight, ok \in BOOLEAN : CbLookupReturns(k, ok)
    \/ \E k \in 1..MaxInflight, user \in {"ok", "excluded", "fail"} : HmGetUserReturns(k, user)
    \/ \E k \in 1..MaxInflight : HmAssetsDone(k)
    \/ \E k \in 1..MaxInflight, ok \in BOOLEAN, r \in FsResults : HmPostReturns(k, ok, r)
    \/ \E k \in 1..MaxInflight, r \in FsResults : HmReactReturns(k, r)
    \/ OwnerDisconnect
    \/ \E r \in FsResults : ProcessRestart(r)

SpecFwd == InitFwd /\ [][NextFwd]_vars

----------------------------------------------------------------------------
(* Properties of the connection supervisor *)

\* socket i emits 'close' in this step (after an established connection or a failed handshake)
CloseStep(i) == WsCloseEvent(i) \/ WsHandshakeFail(i)

\* the close of socket i runs the close handler of the current connection
CurrentClose(i) ==
    /\ i \in Sockets
    /\ left.sockets[i].listeners
    /\ i = left.wsConnectionId
    /\ CloseStep(i)

\* C4 (as claimed): whenever the current connection closes and the client did not
\* call close() on that socket (neither disconnect() nor forceReconnect() closed
\* it), the close handler leaves a reconnect timer scheduled.
C4_UnexpectedCloseSchedules ==
    [][\A i \in Sockets :
          (CurrentClose(i) /\ ~left.sockets[i].clientClosed) => left'.reconnectTimer # NoTimer]_vars

\* C8: the attempt counter grows by exactly one at each close of the current
\* connection that schedules a reconnect, every open of the current connection
\* sets it to 0, and it is 0 for as long as the client's socket is open.
C8_AttemptCounter ==
    /\ [][\A i \in Sockets :
            /\ (CurrentClose(i) /\ ~left.intentionallyClosing)
                 => /\ left'.reconnectAttempts = left.reconnectAttempts + 1
                    /\ left'.reconnectTimer # NoTimer
            /\ (WsOpenEvent(i) /\ left.sockets[i].listeners /\ i = left.wsConnectionId)
                 => left'.reconnectAttempts = 0]_vars
    /\ [](wsState(left) = OPEN => left.reconnectAttempts = 0)

C8_Witness ==
    /\ wsState(left) = OPEN
    /\ left.ws > 2
    /\ left.reconnectAttempts = 0
    /\ \E i \in Sockets : i < left.ws /\ left.sockets[i].readyState = CLOSED

UsableSockets == {i \in Sockets : left.sockets[i].readyState \in {CONNECTING, OPEN}}

\* C9: while the client's socket is OPEN or CONNECTING no step creates a socket,
\* connectWebSocket then only replaces the monitored set and the handlers, and
\* at most one socket is connecting or open: the one the client references.
C9_SingleConnection ==
    /\ [][(wsState(left) \in {OPEN, CONNECTING})
            => /\ Len(left'.sockets) = Len(left.sockets)
               /\ \A channelIds \in SUBSET Channels :
                     OwnerConnect(channelIds) =>
                       left' = [left EXCEPT !.monitoredChannels = channelIds,
                                            !.messageHandler = TRUE,
                                            !.messageEditHandler = TRUE]]_vars
    /\ [](UsableSockets \subseteq {left.ws} /\ left.ws \in {NoSocket, left.wsConnectionId})

\* the first connect always monitors SourceChannels: a different set on the first
\* socket means connectWebSocket ran again while that socket was connecting or open
C9_Witness ==
    /\ wsState(left) = OPEN
    /\ Len(left.sockets) = 1
    /\ left.monitoredChannels = Channels

\* some callback of socket i runs in this step
SocketEvent(i) ==
    \/ WsOpenEvent(i)
    \/ WsPongEvent(i)
    \/ WsErrorEvent(i)
    \/ CloseStep(i)
    \/ WsOtherMessage(i)
    \/ \E kind \in EventKinds, m \in MsgIds : WsMessage(i, kind, m)

HandlerInvocations(q) == Cardinality({k \in 1..Len(q) : q[k].pc = "handler"})

\* C6: a callback whose captured connection id is not the current one changes no
\* field of the client (socket reference, timestamps, attempt counter, flag,
\* processing set, timers), starts no message callback and no handler, and
\* reports no event to the owner.
C6_StaleCallbackIsolation ==
    [][\A i \in Sockets :
          (Stale(i) /\ SocketEvent(i))
            => /\ [left' EXCEPT !.sockets = left.sockets] = left
               /\ inflight' = inflight
               /\ eventsSeen' = eventsSeen]_vars

C6_Witness ==
    /\ staleSeen
    /\ left.ws = 2
    /\ left.sockets[1].readyState = CLOSED
    /\ left.intentionallyClosing

\* C10: disconnect() leaves no socket reference, no reconnect timer, no heartbeat
\* and empty monitored set, handlers, channel cache and processing set; from
\* then on, until connectWebSocket is called again, no socket is created, no
\* reconnect timer or heartbeat is started and no handler invocation begins.
C10_AfterDisconnect ==
    /\ [][OwnerDisconnect
            => /\ left'.ws = NoSocket
               /\ left'.reconnectTimer = NoTimer
               /\ ~left'.pingInterval
               /\ left'.monitoredChannels = {}
               /\ ~left'.messageHandler /\ ~left'.messageEditHandler
               /\ left'.channelCache = {}
               /\ left'.processingMessages = {}]_vars
    /\ [][(disconnected /\ disconnected')
            => /\ Len(left'.sockets) = Len(left.sockets)
               /\ left'.ws = NoSocket
               /\ left'.reconnectTimer = NoTimer
               /\ ~left'.pingInterval
               /\ HandlerInvocations(inflight') <= HandlerInvocations(inflight)]_vars

\* after disconnect() the socket it closed has emitted its close, a forced
\* reconnect timer had been pending, and nothing was scheduled
C10_Witness ==
    /\ disconnected
    /\ left.wsConnectionId > 0
    /\ left.sockets[left.wsConnectionId].readyState = CLOSED
    /\ ~left.intentionallyClosing
    /\ left.reconnectTimer = NoTimer
    /\ left.lastMessageTime > 0

\* 5000 * 1.5^(n-1) for n = 1..5, in half milliseconds
BackoffTable == <<10000, 15000, 22500, 33750, 50625>>

ExpectedDelay(n, jitter) ==
    IF n >= 6 THEN 2 * BackoffCapMs ELSE Min(BackoffTable[n] + 2 * jitter, 2 * BackoffCapMs)

\* C7: the n-th consecutive attempt is scheduled after
\* min(5000 * 1.5^(n-1) + jitter, 30000) ms with an integer jitter in 0..999:
\* 5000, 7500, 11250, 16875, 25312.5 plus jitter, then 30000 from n = 6 on.
C7_BackoffDelay ==
    /\ [][left'.reconnectAttempts = left.reconnectAttempts + 1
            => \E jitter \in 0..MaxJitter :
                 left'.reconnectTimer = ExpectedDelay(left'.reconnectAttempts, jitter)]_vars
    /\ [](left.reconnectTimer <= 2 * BackoffCapMs)

C7_Witness ==
    /\ left.reconnectAttempts = 6
    /\ left.reconnectTimer = 2 * BackoffCapMs

\* the elements of a sequence
Range(seq) == {seq[j] : j \in 1..Len(seq)}

\* C11: a heartbeat tick on an open connection tears the connection down
\* (socket closed and dropped, heartbeat stopped, forced reconnect scheduled)
\* and sends no ping if more than 65 s have passed since the last pong or more
\* than 90 s since the last message; otherwise it leaves the connection open
\* and sends a ping, preceded by a get_statuses probe exactly when more than
\* 30 s have passed since the previous probe.
C11_HeartbeatTick ==
    [][(HeartbeatTick /\ wsState(left) = OPEN)
         => LET i == left.ws
                sentNow == left'.sockets[i].sent
            IN  IF now - left.lastPongTime > 65 \/ now - left.lastMessageTime > 90
                THEN /\ left'.ws = NoSocket
                     /\ left'.sockets[i].readyState = CLOSING
                     /\ ~left'.sockets[i].listeners
                     /\ ~left'.pingInterval
                     /\ left'.forcedTimers = left.forcedTimers + 1
                     /\ "ping" \notin Range(sentNow)
                ELSE /\ left'.ws = i
                     /\ left'.sockets[i].readyState = OPEN
                     /\ left'.forcedTimers = left.forcedTimers
                     /\ IF now - left.lastStatusCheck > 30
                        THEN sentNow = <<"get_statuses", "ping">>
                        ELSE sentNow = <<"ping">>]_vars

\* a tick tore the connection down after its probe: the pong was recent, the
\* last message was not
C11_Witness ==
    /\ left.ws = NoSocket
    /\ left.forcedTimers = 1
    /\ now - left.lastPongTime <= 65
    /\ \E i \in Sockets : /\ left.sockets[i].readyState = CLOSING
                           /\ left.sockets[i].clientClosed
                           /\ left.sockets[i].sent = <<"get_statuses">>

\* the deliveries that arrived for a channel outside the monitored set
Unmonitored == {n \in 1..Len(world.outcomes) : world.outcomes[n] = "unmonitored"}

\* C12: a posted or post_edited event whose channel is not in the monitored set
\* when it arrives suspends no callback and starts no handler; no callback or
\* handler ever runs for such a delivery.
C12_UnmonitoredDropped ==
    /\ [][\A i \in Sockets, kind \in EventKinds, m \in MsgIds :
            (WsMessage(i, kind, m) /\ ChannelOf(m) \notin left.monitoredChannels)
              => inflight' = inflight]_vars
    /\ [](\A k \in 1..Len(inflight) : inflight[k].n \notin Unmonitored)

\* an event of an unmonitored channel was dropped while the handler runs for an
\* event of a monitored one
C12_Witness ==
    /\ Unmonitored # {}
    /\ \E k \in 1..Len(inflight) : inflight[k].pc = "handler"
    /\ \E n \in Unmonitored : n < Len(world.outcomes)

\* C13: the open handler of the current connection sends
\* authentication_challenge with seq 1 and the client's token as the first
\* frame of the connection, and starts the heartbeat after it; no connection
\* ever has another first frame, and an open connection of the client has
\* sent it.
C13_AuthenticationFirst ==
    /\ [][\A i \in Sockets :
            (WsOpenEvent(i) /\ left.sockets[i].listeners /\ i = left.wsConnectionId)
              => /\ left'.sockets[i].first =
                      [action |-> "authentication_challenge", seq |-> 1,
                       token |-> left.token, intervals |-> left.hbTimers]
                 /\ left'.sockets[i].sent = <<"authentication_challenge">>
                 /\ left'.pingInterval
                 /\ left'.hbTimers = left.hbTimers + 1]_vars
    /\ [](\A i \in Sockets :
            /\ left.sockets[i].first # NoFrame
                 => /\ left.sockets[i].first.action = "authentication_challenge"
                    /\ left.sockets[i].first.seq = 1
            /\ (i = left.ws /\ left.sockets[i].readyState = OPEN)
                 => left.sockets[i].first # NoFrame)

\* a later connection authenticated with the token of a re-login
C13_Witness ==
    /\ wsState(left) = OPEN
    /\ left.ws > 1
    /\ left.token = 2
    /\ left.sockets[left.ws].first.token = 2
    /\ left.sockets[left.ws].first.seq = 1

\* session check k ends in this step
CheckEnds(k) ==
    \/ \E r \in {"ok", "err"} : SessionGetMeReturns(k, r)
    \/ \E ok \in BOOLEAN, token \in Tokens : SessionLoginReturns(k, ok, token)

\* C14: a 401/403 answer to the session check leads to login(); a successful
\* login installs the new token and calls forceReconnect (the socket is closed
\* and dropped and a reconnect is scheduled, unless a connect is under way); a
\* failed login changes nothing but the end of the check; every end of a check
\* clears sessionCheckInProgress; at most one check is in flight.
C14_SessionCheck ==
    /\ [][\A k \in 1..Len(left.checks) :
            /\ SessionGetMeReturns(k, "auth")
                 => /\ left'.checks[k].pc = "login"
                    /\ left'.sessionCheckInProgress
                    /\ [left' EXCEPT !.checks = left.checks] = left
            /\ \A token \in Tokens :
                 SessionLoginReturns(k, TRUE, token)
                   => /\ left'.token = token
                      /\ wsState(left) # CONNECTING
                           => /\ left'.ws = NoSocket
                              /\ ~left'.pingInterval
                              /\ left'.reconnectTimer = NoTimer
                              /\ (left.messageHandler /\ left.monitoredChannels # {})
                                   => left'.forcedTimers = left.forcedTimers + 1
                      /\ wsState(left) = CONNECTING
                           => [left' EXCEPT !.token = left.token] =
                                [left EXCEPT !.sessionCheckInProgress = FALSE,
                                             !.checks = RemoveAt(left.checks, k)]
            /\ \A token \in Tokens :
                 SessionLoginReturns(k, FALSE, token)
                   => left' = [left EXCEPT !.sessionCheckInProgress = FALSE,
                                           !.checks = RemoveAt(left.checks, k)]
            /\ CheckEnds(k) => ~left'.sessionCheckInProgress]_vars
    /\ [](Len(left.checks) <= 1 /\ (left.sessionCheckInProgress <=> left.checks # << >>))

\* a re-login succeeded while the connection was open: the new token is
\* installed, the connection is dropped and a reconnect is pending
C14_Witness ==
    /\ left.token = 2
    /\ ~left.sessionCheckInProgress
    /\ left.ws = NoSocket
    /\ left.forcedTimers = 1
    /\ left.intentionallyClosing
    /\ \E i \in Sockets : left.sockets[i].readyState = CLOSING /\ left.sockets[i].first.token = 1

----------------------------------------------------------------------------
(* Properties of the forwarding pipeline *)

\* the destination posts created by delivery n, and those created for message m
PostsBy(n) == Cardinality({p \in 1..Len(world.posts) : world.posts[p].by = n})

PostsFor(m) == Cardinality({p \in 1..Len(world.posts) : world.posts[p].src = m})

\* the outcomes of a handler that returned without calling the destination
Skipped == {"failed", "excluded", "dryrun", "nohandler"}

\* C1 (as claimed): when a posted event for m arrives while an earlier delivery
\* of m is still being processed, exactly one destination post is created for m
\* by the two deliveries once the earlier one has returned.
C1_ExactlyOnePost ==
    \A pair \in world.dropped :
        world.outcomes[pair[2]] # "pending" => PostsBy(pair[1]) + PostsBy(pair[2]) = 1

\* C1 (amended): a posted event for m that arrives while an earlier delivery of m
\* is still being processed is dropped immediately (no callback is suspended,
\* no handler runs, no post is created); the two deliveries together create at
\* most one destination post: exactly one if the earlier delivery's forward
\* succeeds, none if it is skipped (dry-run, excluded author) or fails.
C1_ConcurrentDuplicate ==
    /\ [][\A i \in Sockets, m \in MsgIds :
            (WsMessage(i, "posted", m) /\ InFlightFor("posted", m) # {})
              => /\ inflight' = inflight
                 /\ world'.posts = world.posts
                 /\ bridge' = bridge]_vars
    /\ [](\A pair \in world.dropped :
            /\ PostsBy(pair[1]) = 0
            /\ PostsBy(pair[2]) <= 1
            /\ world.outcomes[pair[2]] = "posted" => PostsBy(pair[2]) = 1
            /\ world.outcomes[pair[2]] \in Skipped => PostsBy(pair[2]) = 0)

C1_Witness ==
    \E pair \in world.dropped :
        /\ world.outcomes[pair[1]] = "dropped"
        /\ world.outcomes[pair[2]] = "posted"
        /\ PostsBy(pair[2]) = 1

\* C2 (as claimed): at most one destination post is ever created for a source
\* message id, whatever the sequence of its arrivals.
C2_AtMostOnePost ==
    \A m \in MsgIds : PostsFor(m) <= 1

\* C3 (as claimed): once the catch-up of a restarted process has completed
\* (its fetch succeeded and every replayed message was forwarded, not in
\* dry-run), every message of a monitored channel that was not forwarded when
\* the previous process stopped has a destination post.
C3_NoMessageLost ==
    (/\ world.restarts > 0
     /\ bridge.phase \in {"connect", "live"}
     /\ bridge.clean
     /\ ~cfg.dryRun)
      => \A m \in bridge.backlog : PostsFor(m) >= 1

\* the calls of handleMessageEdit on the destination client that are under way
EditCalls(q) == {k \in 1..Len(q) : q[k].pc \in {"getPost", "update"}}

\* C15: when handleMessageEdit is called for a source id without an entry in
\* the id map (and an author that is not ignored), it returns at once: no
\* getPost or updateMessage is started, the id map, the tracker, the tracking
\* file and the destination posts are unchanged, and the stream callback goes
\* on to release the edit key, which it does only if the handler did not
\* throw. (The counters of the event summary are statistics: the handler
\* counts the post_edited event.) No destination call is ever under way for
\* an edit without a target.
C15_EditWithoutMapping ==
    /\ [][\A k \in 1..Len(inflight) :
            (/\ HeStarts(k, TRUE, FALSE)
             /\ left.messageEditHandler
             /\ \A j \in 1..Len(bridge.messageIdMap) : bridge.messageIdMap[j].src # inflight[k].msg)
              => /\ inflight' = RemoveAt(inflight, k)
                 /\ EditCalls(inflight') = EditCalls(inflight)
                 /\ bridge' = bridge
                 /\ world'.posts = world.posts
                 /\ world'.disk = world.disk
                 /\ world'.outcomes[inflight[k].n] = "nomap"
                 /\ left'.processingMessages =
                      left.processingMessages \ {ProcessingKey("edited", inflight[k].msg)}]_vars
    /\ [](\A k \in EditCalls(inflight) : inflight[k].target # 0)

\* after a restart the edit of a message forwarded by the previous process
\* found no mapping and was dropped
C15_Witness ==
    /\ world.restarts = 1
    /\ PostsFor(1) = 1
    /\ bridge.messageIdMap = << >>
    /\ \E n \in 1..Len(world.outcomes) : world.outcomes[n] = "nomap"
    /\ \A p \in 1..Len(world.posts) : world.posts[p].updates = 0

\* C16: the id map never holds more than 1000 entries. A forward of a message
\* that has an entry replaces the entry in place; a forward of a new message
\* appends its entry, and if the map held 1000 entries it removes exactly the
\* first (oldest-inserted) one and keeps the new one.
C16_MapCapacity ==
    /\ [](Len(bridge.messageIdMap) <= 1000)
    /\ [][Len(world'.posts) = Len(world.posts) + 1
            => LET map == bridge.messageIdMap
                   new == [src |-> world'.posts[Len(world'.posts)].src, dst |-> Len(world'.posts)]
               IN  IF \E j \in 1..Len(map) : map[j].src = new.src
                   THEN bridge'.messageIdMap =
                          [j \in 1..Len(map) |-> IF map[j].src = new.src THEN new ELSE map[j]]
                   ELSE IF Len(map) = 1000
                        THEN bridge'.messageIdMap = Append(Tail(map), new)
                        ELSE bridge'.messageIdMap = Append(map, new)]_vars

\* the map is full, its oldest entry has been evicted for a new message
C16_Witness ==
    /\ Len(bridge.messageIdMap) = 1000
    /\ bridge.messageIdMap[1].src \notin {1, Earlier(1)}
    /\ bridge.messageIdMap[1000].src \in {1, 2}
    /\ bridge.messageIdMap[1000].dst > 1000

\* C17: for a channel whose stored watermark has timestamp T, catch-up never
\* passes to handleMessage a message whose create_at is T or less, whichever
\* query of getMessagesSince produced the list of missed messages
C17_NoReplayAtOrBelowWatermark ==
    [][CatchUpNext /\ bridge.lastTracked # NoTrack
         => CreateAt(Head(bridge.queue)) > bridge.lastTracked.ts]_vars

\* the destination posts created by delivery n, and the catch-up replays in flight
PostsOf(w, n) == Cardinality({p \in 1..Len(w.posts) : w.posts[p].by = n})
Replaying(q) == {k \in 1..Len(q) : q[k].kind = "catchup"}

\* C18: catch-up passes the fetched messages of a channel to handleMessage in
\* non-decreasing create_at order and one at a time (no replay starts while
\* another is in flight), and a replay that ends with a successful post has
\* created exactly one destination post
C18_ReplayInOrder ==
    [][/\ CatchUpNext
          => LET done == Len(bridge.missedMessages) - Len(bridge.queue)
             IN  /\ Head(bridge.queue) = bridge.missedMessages[done + 1]
                 /\ \A j \in 1..done :
                       CreateAt(bridge.missedMessages[j]) <= CreateAt(Head(bridge.queue))
                 /\ Replaying(inflight) = {}
       /\ Cardinality(Replaying(inflight')) <= 1
       /\ \A k \in Replaying(inflight) :
            /\ PostsOf(world', inflight[k].n) <= 1
            /\ (Replaying(inflight') = {} /\ world'.outcomes[inflight[k].n] = "posted")
                 => PostsOf(world', inflight[k].n) = 1]_vars

\* two messages of a channel were replayed by one catch-up and both were posted
C18_Witness ==
    /\ bridge.phase = "catchup"
    /\ Len(bridge.missedMessages) = 2
    /\ bridge.queue = << >>
    /\ inflight = << >>
    /\ bridge.clean
    /\ Len(world.posts) = 2

\* C19: when the catch-up of a channel that had no watermark ends and every
\* replayed message was posted, the watermark of the channel is the id and
\* create_at of the last replayed message, and no replayed message has a
\* greater create_at
C19_WatermarkAfterCatchUp ==
    [][(/\ CatchUpChannelDone
        /\ bridge.lastTracked = NoTrack
        /\ bridge.missedMessages # << >>
        /\ bridge.clean)
         => LET missedMessages == bridge.missedMessages
                last == missedMessages[Len(missedMessages)]
            IN  /\ getLastForwardedMessage(bridge.tracker, Head(bridge.todo))
                     = [id |-> last, ts |-> CreateAt(last)]
                /\ \A j \in 1..Len(missedMessages) :
                      CreateAt(missedMessages[j]) <= CreateAt(last)]_vars

\* the catch-up of a channel without a watermark has replayed and posted two messages
C19_Witness ==
    /\ bridge.phase = "catchup"
    /\ bridge.lastTracked = NoTrack
    /\ Len(bridge.missedMessages) = 2
    /\ bridge.queue = << >>
    /\ inflight = << >>
    /\ bridge.clean
    /\ getLastForwardedMessage(bridge.tracker, Head(bridge.todo)) = [id |-> 2, ts |-> CreateAt(2)]

\* C20: while start() is in its catch-up step no connection of the event
\* stream exists and no handler is registered, and while a catch-up replay is
\* in flight no live event is being handled
C20_CatchUpBeforeConnect ==
    /\ bridge.phase \in {"start", "catchup"}
         => /\ Len(left.sockets) = 0
            /\ ~left.messageHandler
            /\ ~left.messageEditHandler
            /\ Replaying(inflight) = DOMAIN inflight
    /\ Replaying(inflight) # {}
         => /\ bridge.phase = "catchup"
            /\ Len(left.sockets) = 0
            /\ ~left.messageHandler

\* a catch-up replay is in flight and a message has been posted on the source
\* server since the fetch
C20_Witness ==
    /\ Replaying(inflight) # {}
    /\ bridge.missedMessages # << >>
    /\ world.history > Len(bridge.missedMessages)

\* the email ends, letter case aside, with the listed domain, an '@' put
\* before the domain when it has none
EndsWithDomain(email, domain) ==
    LET at == IF domain # << >> /\ domain[1] = "@" THEN domain ELSE <<"@">> \o domain
        skip == Len(email) - Len(at)
    IN  /\ skip >= 0
        /\ \A j \in 1..Len(at) : Lower(email[skip + j]) = Lower(at[j])

\* C21: when getUser returns an author whose email ends with a domain of a
\* non-empty exclusion list, handleMessage returns at once: no upload and no
\* post is made on the destination, the id map and the watermark (in memory
\* and on disk) stay as they are, and message_excluded grows by exactly one
C21_ExcludedAuthor ==
    [][\A k \in 1..Len(inflight), email \in Emails :
         (/\ HmGetUserEmail(k, email)
          /\ \E j \in 1..Len(cfg.dontForwardFor) : EndsWithDomain(email, cfg.dontForwardFor[j]))
          => /\ world'.posts = world.posts
             /\ world'.uploads = world.uploads
             /\ world'.disk = world.disk
             /\ bridge'.messageIdMap = bridge.messageIdMap
             /\ bridge'.tracker = bridge.tracker
             /\ bridge'.bridgeEvents.message_excluded = bridge.bridgeEvents.message_excluded + 1
             /\ Len(inflight') = Len(inflight) - 1
             /\ world'.outcomes[inflight[k].n] = "excluded"
             /\ PostsOf(world', inflight[k].n) = 0]_vars

\* the second delivery was excluded for its author's email after the first
\* had been posted
C21_Witness ==
    /\ cfg.dontForwardFor = << <<"x">> >>
    /\ bridge.bridgeEvents.message_excluded = 1
    /\ Len(world.posts) = 1
    /\ Len(world.outcomes) = 2
    /\ world.outcomes[2] = "excluded"

\* handleMessage is past the avatar: it waits for a file, the dry-run check or the post
PastAvatar(d) ==
    \/ d.pc = "post"
    \/ d.pc = "assets" /\ d.assets.stage \in {"fileDownload", "fileUpload", "done"}

\* C22: when downloadProfilePicture or uploadProfilePicture returns null,
\* handleMessage goes on to the attachments without a profile picture URL, a
\* failed download is followed by no upload, the avatar cache stays as it is,
\* the URL stays undefined until the post, and the post carries as
\* author_icon the URL handleMessage has, that is none
C22_AvatarFailure ==
    [][/\ \A k \in 1..Len(inflight) :
            /\ HmAvatarDownloadReturns(k, FALSE)
                 => /\ PastAvatar(inflight'[k])
                    /\ inflight'[k].assets.profilePictureUrl = 0
                    /\ world'.uploads = world.uploads
                    /\ bridge'.profilePictureCache = bridge.profilePictureCache
            /\ HmAvatarUploadReturns(k, FALSE)
                 => /\ PastAvatar(inflight'[k])
                    /\ inflight'[k].assets.profilePictureUrl = 0
                    /\ bridge'.profilePictureCache = bridge.profilePictureCache
            /\ \A j \in 1..Len(inflight') :
                 (PastAvatar(inflight[k]) /\ inflight'[j].n = inflight[k].n)
                  => inflight'[j].assets.profilePictureUrl = inflight[k].assets.profilePictureUrl
            /\ (/\ Len(world'.posts) > Len(world.posts)
                /\ world'.posts[Len(world'.posts)].by = inflight[k].n)
                 => world'.posts[Len(world'.posts)].author_icon
                      = inflight[k].assets.profilePictureUrl]_vars

\* message 2, which has no files, was posted without a profile picture after
\* the upload of the picture had failed
C22_Witness ==
    /\ Len(world.posts) = 1
    /\ world.posts[1].src = 2
    /\ world.posts[1].author_icon = 0
    /\ world.uploads = 1
    /\ bridge.profilePictureCache = NoAvatars

\* C23: in dry-run mode neither postMessageWithAttachment nor updateMessage
\* is ever called or awaited, no destination post exists or is updated, and
\* the id map and the watermark (in memory and on disk) stay as they were;
\* with dry-run off, handleMessage at its dry-run check always goes on to the
\* post, and handleMessageEdit with a target post it may edit to the update
C23_DryRun ==
    [][/\ cfg.dryRun
            => /\ world'.posts = << >>
               /\ bridge'.messageIdMap = << >>
               /\ bridge'.tracker = bridge.tracker
               /\ world'.disk = world.disk
               /\ \A k \in 1..Len(inflight') : inflight'[k].pc \notin {"post", "react", "update"}
       /\ ~cfg.dryRun
            => \A k \in 1..Len(inflight) :
                 /\ HmAssetsDone(k) => inflight'[k].pc = "post"
                 /\ HeGetPostReturns(k, "ok") => inflight'[k].pc = "update"]_vars

\* in dry-run mode a message went through handleMessage and an edit of it
\* through handleMessageEdit
C23_Witness ==
    /\ cfg.dryRun
    /\ Len(world.outcomes) = 2
    /\ world.outcomes[1] = "dryrun"
    /\ world.outcomes[2] = "nomap"

\* C24: in dry-run mode handling a message issues nothing against the
\* destination server: no upload of an avatar or a file, no post, no update
C24_DryRunNoDestinationEffect ==
    cfg.dryRun
      => /\ world.uploads = 0
         /\ world.posts = << >>
         /\ \A k \in 1..Len(inflight) :
              /\ inflight[k].pc \notin {"post", "update"}
              /\ inflight[k].pc = "assets" => inflight[k].assets.stage \notin {"avatarUpload", "fileUpload"}

\* the client without the bookkeeping of the messages: the state of the connection
ConnectionOf(c) == [c EXCEPT !.processingMessages = {}, !.channelCache = {}]

\* C25: when the handling of a delivery ends in an error (a lookup, the post
\* or the update fails), the step ends that handling alone: the state of the
\* connection and the phase of the bridge are unchanged and the other
\* deliveries in flight are untouched; an error inside handleMessage or
\* handleMessageEdit is caught there, so the callback goes on after its await
\* and removes the key of the message (the key after an error of the callback
\* itself is the subject of C27)
C25_ErrorBoundary ==
    [][\A k \in 1..Len(inflight) :
         LET d == inflight[k]
         IN  (world.outcomes[d.n] = "pending" /\ world'.outcomes[d.n] = "failed")
              => /\ ConnectionOf(left') = ConnectionOf(left)
                 /\ bridge'.phase = bridge.phase
                 /\ inflight' = RemoveAt(inflight, k)
                 /\ d.pc # "lookup" => ProcessingKey(d.kind, d.msg) \notin left'.processingMessages]_vars

\* the post of the first delivery failed and the next delivery was posted on
\* the same connection
C25_Witness ==
    /\ Len(world.outcomes) >= 2
    /\ world.outcomes[1] = "failed"
    /\ world.outcomes[2] = "posted"
    /\ world.restarts = 0
    /\ Len(left.sockets) = 1
    /\ wsState(left) = OPEN

\* the place of a step of start() in the order of the steps
StartRank(phase) ==
    CASE phase = "leftPing"   -> 1
      [] phase = "rightPing"  -> 2
      [] phase = "leftLogin"  -> 3
      [] phase = "rightLogin" -> 4
      [] phase = "source"     -> 5
      [] phase \in {"target", "isMember", "join", "targetAgain"} -> 6
      [] phase \in {"start", "catchup"} -> 7
      [] phase = "connect"    -> 8
      [] OTHER                -> 9

\* the call start() waits for fails, or finds no channel
StepFails(phase, servers) ==
    CASE phase = "leftPing"    -> ~servers.leftPing
      [] phase = "rightPing"   -> ~servers.rightPing
      [] phase = "leftLogin"   -> ~servers.leftLogin
      [] phase = "rightLogin"  -> ~servers.rightLogin
      [] phase = "source"      -> servers.source # "ok"
      [] phase = "target"      -> servers.target \in {"null", "throw"}
      [] phase = "isMember"    -> servers.isMember # "no"
      [] phase = "join"        -> servers.joined # "yes"
      [] phase = "targetAgain" -> servers.again # "ok"
      [] OTHER                 -> FALSE

\* nothing that start() starts at its end is running
NothingStarted ==
    /\ left.sockets = << >>
    /\ left.ws = NoSocket
    /\ ~left.messageHandler
    /\ ~left.messageEditHandler
    /\ ~bridge.eventSummaryTimer
    /\ ~bridge.heartbeatService

\* C26: start() takes its steps in the order left ping, right ping, left
\* login, right login, source channel, target channel, catch-up, connect; a
\* step up to the channel resolution that fails (or finds no channel) makes
\* start() reject, after which no later step is taken; until the connect
\* step, and for ever after a rejection, there is no connection, no summary
\* timer and no heartbeat service, and after a rejection nothing was replayed
C26_StartOrder ==
    /\ []((StartRank(bridge.phase) <= 8 \/ bridge.phase = "failed") => NothingStarted)
    /\ [](bridge.phase = "failed" => inflight = << >> /\ world.posts = << >>)
    /\ [][/\ bridge.phase = "failed" => bridge'.phase = "failed"
          /\ (bridge.phase # "failed" /\ StartRank(bridge.phase) <= 8 /\ bridge'.phase # bridge.phase)
               => IF StepFails(bridge.phase, world.servers)
                  THEN bridge'.phase = "failed"
                  ELSE /\ bridge'.phase # "failed"
                       /\ StartRank(bridge'.phase) \in
                            {StartRank(bridge.phase), StartRank(bridge.phase) + 1}
                            \cup (IF ~cfg.catchUp /\ StartRank(bridge.phase) = 6 THEN {8} ELSE {})]_vars

\* start() rejected at the target channel: both pings, both logins and the
\* source channel had succeeded, the target was refused and the bot could not join
C26_Witness ==
    /\ bridge.phase = "failed"
    /\ world.servers.leftPing /\ world.servers.rightPing
    /\ world.servers.leftLogin /\ world.servers.rightLogin
    /\ world.servers.source = "ok"
    /\ world.servers.target = "forbidden"
    /\ world.servers.isMember = "no"
    /\ world.servers.joined = "no"
    /\ SourceChannels \subseteq left.channelCache

\* C27: the key of a message is removed from processingMessages whenever the
\* handling of its delivery ends, so with no delivery in flight the set is empty
C27_GuardReleased ==
    inflight = << >> => left.processingMessages = {}

C29_DeliveryOrder ==
    \A p \in 1..Len(world.posts) : \A q \in 1..Len(world.posts) :
        p < q => world.posts[p].by < world.posts[q].by

\* the ids on the destination of the files of delivery d that were neither
\* skipped at the download nor at the upload, in the order of the source message
ReuploadedIds(d) ==
    LET kept == SelectSeq(FilesOf(d.msg), LAMBDA f : f \notin d.assets.skipped)
    IN  [i \in 1..Len(kept) |-> Uploaded(kept[i])]

\* C30: a file whose download or upload fails does not end the handling of
\* the message; the post that is created carries the destination ids of
\* exactly the files that succeeded, in the order of the source message, and
\* has a file list only if there is such a file
C30_Attachments ==
    [][/\ \A k \in 1..Len(inflight) :
            (inflight[k].pc = "assets" /\ inflight[k].assets.stage \in {"fileDownload", "fileUpload"})
              => /\ \E j \in 1..Len(inflight') : inflight'[j].n = inflight[k].n
                 /\ world'.outcomes[inflight[k].n] = "pending"
       /\ Len(world'.posts) = Len(world.posts) + 1
            => LET post == world'.posts[Len(world'.posts)]
               IN  \E k \in 1..Len(inflight) :
                     /\ inflight[k].n = post.by
                     /\ post.file_ids = ReuploadedIds(inflight[k])
                     /\ post.has_file_ids = (ReuploadedIds(inflight[k]) # << >>)]_vars

\* message 1 has two files: the first was skipped, the second was uploaded,
\* and the post carries the id of the second alone
C30_Witness ==
    \E p \in 1..Len(world.posts) :
        /\ world.posts[p].src = 1
        /\ FilesOf(1) = <<1, 2>>
        /\ world.posts[p].file_ids = <<Uploaded(2)>>
        /\ world.posts[p].has_file_ids

\* C31: updateMessage is called only with a target post that getPost returned
\* and whose type is empty; when getPost returns null or a system message,
\* handleMessageEdit returns and the destination is not written
C31_EditTargetValidated ==
    /\ [](\A k \in 1..Len(inflight) : inflight[k].pc = "update" => inflight[k].targetPost = "ok")
    /\ [][/\ \A k \in 1..Len(inflight) :
              LET d == inflight[k]
              IN  (d.pc = "getPost" /\ world.outcomes[d.n] = "pending"
                     /\ world'.outcomes[d.n] \in {"system", "notarget"})
                   => /\ world'.posts = world.posts
                      /\ inflight' = RemoveAt(inflight, k)
         /\ \A p \in 1..Len(world.posts) :
              (Len(world'.posts) >= p /\ world'.posts[p].updates # world.posts[p].updates)
                => \E k \in 1..Len(inflight) :
                     /\ inflight[k].pc = "update"
                     /\ inflight[k].target = p
                     /\ inflight[k].targetPost = "ok"]_vars

\* two edits of a forwarded message: the first found a system message or no
\* post and wrote nothing, the second found the post and updated it
C31_Witness ==
    /\ \E n \in 1..Len(world.outcomes) : world.outcomes[n] \in {"system", "notarget"}
    /\ \E n \in 1..Len(world.outcomes) : world.outcomes[n] = "updated"
    /\ \E p \in 1..Len(world.posts) : world.posts[p].updates = 1

\* C32: an entry of profilePictureCache, once created, is not changed or
\* removed until stop() (or the end of the process), and while an author has
\* an entry no avatar is uploaded for that author
C32_AvatarCacheStable ==
    [][(bridge'.phase # "stopped" /\ world'.restarts = world.restarts)
         => \A u \in Users :
              bridge.profilePictureCache[u] # 0
                => /\ bridge'.profilePictureCache[u] = bridge.profilePictureCache[u]
                   /\ \A k \in 1..Len(inflight) :
                        (UserOf(inflight[k].msg) = u /\ inflight[k].pc = "assets"
                           /\ inflight[k].assets.stage = "avatarUpload")
                          => inflight' = inflight]_vars

\* C33: the messages performCatchUp has to replay for a channel are at most
\* config.catchUp.maxMessagesToRecover
C33_RecoverCap ==
    Len(bridge.missedMessages) <= cfg.maxMessagesToRecover

\* C34: a replay that fails leaves the rest of the backlog as it is; the
\* backlog of a channel only shrinks by the replay of its first message;
\* performCatchUp leaves a channel only when its backlog is empty, and start()
\* goes on to connect when the last channel is done
C34_ReplayGoesOn ==
    [][world'.restarts = world.restarts
         => /\ \A k \in 1..Len(inflight) :
                 LET d == inflight[k]
                 IN  (d.kind = "catchup" /\ world.outcomes[d.n] = "pending"
                        /\ world'.outcomes[d.n] \in {"failed", "excluded"})
                      => /\ bridge'.queue = bridge.queue
                         /\ bridge'.todo = bridge.todo
                         /\ bridge'.phase = bridge.phase
            /\ (bridge.phase = "catchup" /\ bridge'.queue # bridge.queue)
                 => /\ bridge'.queue = Tail(bridge.queue)
                    /\ Len(inflight') = Len(inflight) + 1
                    /\ inflight'[Len(inflight')].kind = "catchup"
                    /\ inflight'[Len(inflight')].msg = Head(bridge.queue)
            /\ (bridge.phase = "catchup" /\ bridge'.phase # "catchup")
                 => /\ bridge.queue = << >>
                    /\ bridge'.todo = Tail(bridge.todo)
                    /\ bridge'.phase = IF bridge'.todo = << >> THEN "connect" ELSE "start"]_vars

\* the first catch-up of the run had two messages: the replay of the first
\* failed, the second was replayed and posted, and start() has reached connect
C34_Witness ==
    /\ world.restarts = 0
    /\ world.arrivals = 2
    /\ world.outcomes = <<"failed", "posted">>
    /\ world.posts[1].src = 2
    /\ bridge.tracker.data[1].id = 2
    /\ bridge.phase = "connect"
    /\ ~bridge.clean
    /\ Len(left.sockets) = 0

\* C35: within one run, an edit event delivered after the posted event of a
\* message whose forward succeeded is not dropped for lack of a mapping
C35_EditFindsMapping ==
    world.restarts = 0
      => \A p \in 1..Len(world.posts) : \A n \in 1..Len(world.outcomes) :
           (n > world.posts[p].by /\ mapGet(bridge.messageIdMap, world.posts[p].src) # 0)
             => world.outcomes[n] # "nomap"

\* C36: with tracking enabled, the watermarks change only in the step that
\* ends the handling of a message as posted, after its destination post was
\* created; that step sets the record of the message's channel to the id and
\* the creation time of the message and leaves the records of the other
\* channels as they are; handling that ends excluded, failed or as a dry run
\* leaves every record unchanged
C36_WatermarkWrites ==
    [][world'.restarts = world.restarts
         => LET ends(d, outs) == world.outcomes[d.n] = "pending" /\ world'.outcomes[d.n] \in outs
            IN  /\ \A k \in 1..Len(inflight) :
                     LET d == inflight[k]
                     IN  /\ ends(d, {"posted"})
                              => /\ \E p \in 1..Len(world'.posts) :
                                      world'.posts[p].by = d.n /\ world'.posts[p].src = d.msg
                                 /\ bridge'.tracker.data =
                                      [bridge.tracker.data EXCEPT ![ChannelOf(d.msg)] =
                                          [id |-> d.msg, ts |-> CreateAt(d.msg)]]
                         /\ ends(d, {"failed", "excluded", "dryrun"})
                              => bridge'.tracker.data = bridge.tracker.data
                /\ bridge'.tracker.data # bridge.tracker.data
                     => \E k \in 1..Len(inflight) : ends(inflight[k], {"posted"})]_vars

\* one message was excluded and left no watermark, the next was posted after a
\* reaction on the source and is the watermark of its channel alone
C36_Witness ==
    /\ world.restarts = 0
    /\ cfg.leftMessageEmoji
    /\ world.outcomes = <<"excluded", "posted">>
    /\ Len(world.posts) = 1
    /\ bridge.tracker.data[ChannelOf(world.posts[1].src)]
         = [id |-> world.posts[1].src, ts |-> CreateAt(world.posts[1].src)]
    /\ \A ch \in Channels \ {ChannelOf(world.posts[1].src)} : bridge.tracker.data[ch] = NoTrack

\* C37: in dry-run mode, an edit of a message that handleMessage has already
\* handled as a dry run in this run is not dropped for lack of a mapping when
\* handleMessageEdit looks it up
C37_DryRunWouldUpdate ==
    [][(cfg.dryRun /\ world'.restarts = world.restarts /\ world.restarts = 0)
         => \A k \in 1..Len(inflight) :
              LET d == inflight[k]
              IN  (/\ d.kind = "edited"
                   /\ world.outcomes[d.n] = "pending"
                   /\ \E n \in 1..(d.n - 1) : world.outcomes[n] = "dryrun")
                    => world'.outcomes[d.n] # "nomap"]_vars

\* C38: during a run the timestamp of the watermark of a channel never decreases
C38_WatermarkMonotonic ==
    [][world'.restarts = world.restarts
         => \A ch \in Channels : bridge'.tracker.data[ch].ts >= bridge.tracker.data[ch].ts]_vars

\* C39: while the client's current socket is open (no close() has been called
\* on it by disconnect() or forceReconnect()), intentionallyClosing is false
C39_FlagLifetime ==
    (left.ws # NoSocket /\ wsState(left) = OPEN) => ~left.intentionallyClosing

----------------------------------------------------------------------------
(* Liveness of the connection *)

\* the bridge runs without an open source connection
Down == bridge.phase = "live" /\ ~disconnected /\ wsState(left) # OPEN

LiveSlack ==
    cfg.limitFaults => /\ Len(left.sockets) < cfg.maxSockets
                       /\ left.reconnectAttempts < cfg.maxAttempts

====
